---- MODULE Spec2Model ----
(***************************************************************************)
(* lgtm-gtfo: the bounded concurrency runner, the PR status resolver with  *)
(* its cache, the batch reconciler and the deletion policy of              *)
(* processEmails, modelled on the JavaScript job model: synchronous code   *)
(* runs to its next await, promise reactions run from a FIFO microtask     *)
(* queue, and an external completion (a finished `gh` process) is handled  *)
(* only when the microtask queue is empty.                                 *)
(***************************************************************************)
EXTENDS Integers, Sequences, FiniteSets, TLC

\* Bounds of the model.
MaxItems == 3       \* longest input list given to the runner on its own
MaxConc == 2        \* largest concurrency limit given to the runner on its own
MaxEmails == 2      \* longest list of fetched emails
MaxCalls == 2       \* batchCheckPrs calls made one after the other in one process
MaxRefs == 2        \* longest list of references given to batchCheckPrs on its own
MaxMoveIds == 51    \* longest list given to the Graph and EWS batchMoveToTrash on their own
MaxMailItems == 3   \* longest list given to the Mail.app batchMoveToTrash on its own
MaxFound == 2       \* most pull requests `gh search prs` returns
MaxReviews == 3     \* most reviews of one pull request
MaxProgressRefs == 11 \* most distinct references given to one batchCheckPrs call whose progress is followed
MaxListed == 3      \* longest list with repeated references given to that call

VARIABLES
  caller,        \* who called runWithConcurrency: "generic" | "batch" | "pending"
  items,         \* runWithConcurrency: items
  concurrency,   \* runWithConcurrency: concurrency
  rpc,           \* runWithConcurrency: "idle" | "loop" | "race" | "all" | "returned" | "threw"
  index,         \* 1-based index of the next item the for loop launches
  executing,     \* runWithConcurrency: executing (promises named by item index)
  promise,       \* state of the async IIFE's promise per index
  results,       \* runWithConcurrency: results (a slot never written is outside its domain)
  agg,           \* the Promise.race / Promise.all the runner currently awaits
  mq,            \* microtask queue (FIFO of promise reaction jobs)
  fnst,          \* per index: state of the promise returned by fn(item)
  unhandled,     \* a promise was rejected with no handler attached
  exited,        \* the runtime has terminated the process
  \* github/pr.ts module state and batchCheckPrs
  cache,         \* pr.ts:26 cache, a function from cache key to PrCheckResult
  cachedUser,    \* pr.ts:29 cachedUser ("" is null)
  envHandle,     \* Deno.env.get("GITHUB_HANDLE") ("" is unset)
  bpc,           \* batchCheckPrs: "idle" | "running" | "returned" | "threw"
  prs,           \* batchCheckPrs: prs
  checked,       \* batchCheckPrs: checked
  opUser,        \* checkPr: user, per item index of the running batch
  progress,      \* the "Checked k/n PRs" lines the current call logged, as the sequence of k
  batchResults,  \* the Map batchCheckPrs returned
  lookups,       \* history: number of `gh pr view` processes spawned per cache key
  identityQueries, \* history: number of `gh api user` processes spawned
  failedKeys,    \* history: cache keys whose `gh pr view` exited with a non-zero code
  identityFailedKeys, \* history: cache keys whose checkPr saw `gh api user` fail
  callsLeft,     \* batchCheckPrs calls the driver may still make
  \* processEmails
  emails,        \* the fetched emails
  options,       \* ProcessOptions
  now,           \* the clock, in days
  ppc,           \* processEmails: "idle" | "init" | "batch" | "moving" | "done" | "failed"
  prToDelete,    \* processEmails: prToDelete
  ciToDelete,    \* processEmails: ciToDelete
  allToDelete,   \* processEmails: allToDelete
  moved,         \* history: the calls made to a backend's batchMoveToTrash
  \* batchMoveToTrash of the selected backend
  mpc,           \* batchMoveToTrash: "idle" | "sending" | "returned" | "threw"
  mvBackend,     \* the adapter whose batchMoveToTrash runs
  mvBatches,     \* graph, ews: batches; mail-app: the entries of byMailbox
  mvIndex,       \* 1-based index of the batch whose request is awaited
  mvResult,      \* mail-app: result (errors is the length of result.errors)
  sent,          \* history: the batches whose request reached the backend, in send order
  actualFailed,  \* history: number of candidates the backend did not move
  mvProgress,    \* graph, ews: the "Moved k/n emails to trash" lines logged, as the sequence of k
  \* listPendingReviews
  lpc,           \* listPendingReviews: "idle" | "user" | "search" | "details" | "returned" | "threw"
  excludeBots,   \* options.excludeBots
  searchUser,    \* the user `gh search prs --review-requested` was asked about ("" before that)
  found,         \* history: the search results as parsed, before the bot filter
  processed,     \* listPendingReviews: processed
  fetched,       \* history: the search results whose review details were asked for
  details,       \* history: per item index, what the detail `gh pr view` answered
  report         \* pendingPrs and the four buckets listPendingReviews printed

runnerVars == <<caller, items, concurrency, rpc, index, executing, promise,
                results, agg, mq, fnst, unhandled, exited>>
batchVars == <<cache, cachedUser, envHandle, bpc, prs, checked, opUser, progress,
               batchResults, lookups, identityQueries, failedKeys,
               identityFailedKeys, callsLeft>>
moveVars == <<mpc, mvBackend, mvBatches, mvIndex, mvResult, sent, actualFailed,
              mvProgress>>
procVars == <<emails, options, now, ppc, prToDelete, ciToDelete, allToDelete, moved,
              moveVars>>
pendVars == <<lpc, excludeBots, searchUser, found, processed, fetched, details,
              report>>
vars == <<runnerVars, batchVars, procVars, pendVars>>

-----------------------------------------------------------------------------
\* Generic helpers

RECURSIVE SetToSeq(_)
\* the elements of a set of naturals in increasing order (a Set of promises
\* iterates in insertion order, which is launch order)
SetToSeq(S) ==
  IF S = {} THEN <<>>
  ELSE LET m == CHOOSE x \in S : \A y \in S : x <= y
       IN <<m>> \o SetToSeq(S \ {m})

RECURSIVE SeqsUpTo(_, _)
\* all sequences over S of length at most n
SeqsUpTo(S, n) ==
  IF n = 0 THEN {<<>>}
  ELSE LET shorter == SeqsUpTo(S, n - 1)
       IN shorter \cup {Append(s, x) : s \in {t \in shorter : Len(t) = n - 1}, x \in S}

-----------------------------------------------------------------------------
\* runWithConcurrency (src/src/github/pr.ts:134-157)

\* the per-item operation of the runner taken on its own
Fn(item) == <<"R", item>>

GenericItems == {"a", "b"}

NoAgg == [id |-> 0, kind |-> "none", members |-> {}, remaining |-> {}, settled |-> TRUE]

\* pr.ts:150, the off-by-one variant lets one more operation start
AtCapacityOffByOne(exec, c) == Cardinality(exec) > c

\* a loop that awaits a completion after every launch
AtCapacityAlways(exec, c) == TRUE

\* pr.ts:150  executing.size >= concurrency
AtCapacity(exec, c) == Cardinality(exec) >= c

\* pr.ts:144  results[index] = await fn(item)
StoreResult(res, i, v) ==
  [j \in DOMAIN res \cup {i} |-> IF j = i THEN v ELSE res[j]]

\* operations started and not yet completed
InFlight == {i \in DOMAIN promise : promise[i] = "pending"}

\* synchronous code of the runner is on the stack: nothing else can run
Running == rpc = "loop"

\* an external completion is handled once no code runs and the microtask queue
\* has drained; a rejection nothing handled ends the process before that
CanHandleEvent == ~Running /\ ~exited /\ mq = <<>> /\ ~unhandled

\* Promise.race(executing) / Promise.all(executing): a reaction is registered
\* on every member; a member that is already settled queues its reaction job
\* at once.
AggJobs(id, members, prom) ==
  LET settledSeq == SetToSeq({i \in members : prom[i] # "pending"})
  IN [k \in 1..Len(settledSeq) |->
        [t |-> "agg", id |-> id, i |-> settledSeq[k],
         ok |-> prom[settledSeq[k]] = "fulfilled"]]

\* a settled promise that runs its finally callback but wakes no aggregate
SettleJobsFinallyOnly(i, ok) == <<[t |-> "finally", i |-> i]>>

\* the reaction jobs queued when the IIFE promise of index i settles:
\* the finally callback of pr.ts:148 was registered first, the reaction of
\* the awaited race/all (if i is one of its members) after it
SettleJobs(i, ok) ==
  <<[t |-> "finally", i |-> i]>> \o
  (IF agg.kind # "none" /\ i \in agg.members
   THEN <<[t |-> "agg", id |-> agg.id, i |-> i, ok |-> ok]>>
   ELSE <<>>)

\* pr.ts:139-140, entry of runWithConcurrency
RunnerEnter(its, c) ==
  /\ items' = its
  /\ concurrency' = c
  /\ rpc' = "loop"
  /\ index' = 1
  /\ executing' = {}
  /\ promise' = [i \in {} |-> "pending"]
  /\ results' = [i \in {} |-> <<>>]
  /\ agg' = NoAgg
  /\ fnst' = [i \in {} |-> "pending"]

\* the promise returned by fn(item) when the runner is taken on its own: it is
\* already settled (the operation completed immediately) or settles later
GenericFnJobs(i, imm, ok) ==
  IF imm THEN <<[t |-> "iife", i |-> i, ok |-> ok, v |-> Fn(items[i])]>> ELSE <<>>

\* pr.ts:142-152, one iteration of the for loop: the async IIFE calls fn(item)
\* and suspends on its promise, the promise joins executing, and at capacity
\* the loop suspends on Promise.race(executing). fnJobs are the microtasks the
\* synchronous part of fn(item) queued, fnState the state of its promise.
LoopIteration(fnJobs, fnState) ==
  LET i == index
      exec == executing \cup {i}
      prom == [j \in DOMAIN promise \cup {i} |-> IF j = i THEN "pending" ELSE promise[j]]
  IN /\ promise' = prom
     /\ executing' = exec
     /\ fnst' = [j \in DOMAIN fnst \cup {i} |-> IF j = i THEN fnState ELSE fnst[j]]
     /\ index' = i + 1
     /\ IF AtCapacity(exec, concurrency)
        THEN /\ rpc' = "race"
             /\ agg' = [id |-> i, kind |-> "race", members |-> exec,
                        remaining |-> {}, settled |-> FALSE]
             /\ mq' = mq \o fnJobs \o AggJobs(i, exec, prom)
        ELSE /\ rpc' = "loop"
             /\ agg' = agg
             /\ mq' = mq \o fnJobs
     /\ UNCHANGED <<caller, items, concurrency, results, unhandled, exited>>

\* pr.ts:155  await Promise.all(executing)
LoopEnd ==
  /\ rpc = "loop"
  /\ ~exited
  /\ index > Len(items)
  /\ rpc' = "all"
  /\ agg' = [id |-> index, kind |-> "all", members |-> executing,
             remaining |-> executing, settled |-> executing = {}]
  /\ mq' = mq \o AggJobs(index, executing, promise) \o
           (IF executing = {} THEN <<[t |-> "runner", ok |-> TRUE]>> ELSE <<>>)
  /\ UNCHANGED <<caller, items, concurrency, index, executing, promise, results,
                 fnst, unhandled, exited>>
  /\ UNCHANGED <<batchVars, procVars, pendVars>>

\* the loop of the runner taken on its own launches item `index`
GenericLaunch ==
  /\ caller = "generic"
  /\ rpc = "loop"
  /\ ~exited
  /\ index <= Len(items)
  /\ \E imm \in BOOLEAN, ok \in BOOLEAN :
       LoopIteration(GenericFnJobs(index, imm, ok), IF imm THEN "settled" ELSE "pending")
  /\ UNCHANGED <<batchVars, procVars, pendVars>>

\* an operation of the runner taken on its own completes or fails (an
\* external completion: handled when no code runs and no microtask waits)
GenericSettle(i, ok) ==
  /\ caller = "generic"
  /\ CanHandleEvent
  /\ i \in DOMAIN fnst /\ fnst[i] = "pending"
  /\ fnst' = [fnst EXCEPT ![i] = "settled"]
  /\ mq' = <<[t |-> "iife", i |-> i, ok |-> ok, v |-> Fn(items[i])]>>
  /\ UNCHANGED <<caller, items, concurrency, rpc, index, executing, promise,
                 results, agg, unhandled, exited>>
  /\ UNCHANGED <<batchVars, procVars, pendVars>>

\* a microtask may run: no synchronous code is on the stack
CanRunJob(type) == ~Running /\ ~exited /\ mq # <<>> /\ Head(mq).t = type

\* pr.ts:143-145, the async IIFE resumes after `await fn(item)`: it stores the
\* result and its promise is fulfilled, or the rejection passes through
JobIife ==
  /\ CanRunJob("iife")
  /\ LET j == Head(mq)
     IN /\ results' = IF j.ok THEN StoreResult(results, j.i, j.v) ELSE results
        /\ promise' = [promise EXCEPT ![j.i] = IF j.ok THEN "fulfilled" ELSE "rejected"]
        /\ mq' = Tail(mq) \o SettleJobs(j.i, j.ok)
  /\ UNCHANGED <<caller, items, concurrency, rpc, index, executing, agg, fnst,
                 unhandled, exited>>
  /\ UNCHANGED <<batchVars, procVars, pendVars>>

\* pr.ts:148  promise.finally(() => executing.delete(promise)); the promise
\* finally() returns is rejected along with `promise` and nothing handles it
JobFinally ==
  /\ CanRunJob("finally")
  /\ LET j == Head(mq)
     IN /\ executing' = executing \ {j.i}
        /\ unhandled' = (unhandled \/ promise[j.i] = "rejected")
        /\ mq' = Tail(mq)
  /\ UNCHANGED <<caller, items, concurrency, rpc, index, promise, results, agg,
                 fnst, exited>>
  /\ UNCHANGED <<batchVars, procVars, pendVars>>

\* the reaction Promise.race / Promise.all registered on a member: race settles
\* like its first settled member; all is rejected by the first rejection and
\* fulfilled once every member is fulfilled. A settled aggregate ignores it.
JobAgg ==
  /\ CanRunJob("agg")
  /\ LET j == Head(mq)
         live == j.id = agg.id /\ ~agg.settled
         rest == agg.remaining \ {j.i}
         done == IF agg.kind = "race" THEN TRUE ELSE (~j.ok \/ rest = {})
     IN /\ agg' = IF live THEN [agg EXCEPT !.remaining = rest, !.settled = done] ELSE agg
        /\ mq' = Tail(mq) \o
                 (IF live /\ done THEN <<[t |-> "runner", ok |-> j.ok]>> ELSE <<>>)
  /\ UNCHANGED <<caller, items, concurrency, rpc, index, executing, promise,
                 results, fnst, unhandled, exited>>
  /\ UNCHANGED <<batchVars, procVars, pendVars>>

\* pr.ts:151 / 155-156, the runner resumes from its await: the race lets the
\* loop go on, Promise.all lets it return results, a rejection is thrown
RunnerResume ==
  /\ CanRunJob("runner")
  /\ LET j == Head(mq)
     IN /\ rpc' = IF ~j.ok THEN "threw"
                  ELSE IF rpc = "race" THEN "loop" ELSE "returned"
        /\ mq' = Tail(mq) \o
                 (IF caller \in {"batch", "pending"} /\ (~j.ok \/ rpc = "all")
                  THEN <<[t |-> caller, ok |-> j.ok]>> ELSE <<>>)
  /\ UNCHANGED <<caller, items, concurrency, index, executing, promise, results,
                 agg, fnst, unhandled, exited>>
  /\ UNCHANGED <<batchVars, procVars, pendVars>>

\* the runtime ends the process on a promise rejection nothing handled, once
\* the microtask queue has drained
UncaughtExit ==
  /\ ~Running /\ ~exited /\ mq = <<>>
  /\ unhandled
  /\ exited' = TRUE
  /\ UNCHANGED <<caller, items, concurrency, rpc, index, executing, promise,
                 results, agg, mq, fnst, unhandled>>
  /\ UNCHANGED <<batchVars, procVars, pendVars>>

-----------------------------------------------------------------------------
\* Text: a string the code takes apart is a sequence of tokens. A cache key
\* is a sequence of one-character strings; process output is a sequence of
\* words and white space.

None == <<>>           \* null / undefined / NaN
Some(x) == <<x>>

DigitChars == <<"0", "1", "2", "3", "4", "5", "6", "7", "8", "9">>

IsDigit(c) == \E d \in 1..Len(DigitChars) : DigitChars[d] = c

DigitVal(c) == (CHOOSE d \in 1..Len(DigitChars) : DigitChars[d] = c) - 1

RECURSIVE NumToStr(_)
\* String(n) for an integer n >= 0
NumToStr(n) ==
  IF n < Len(DigitChars) THEN <<DigitChars[n + 1]>>
  ELSE NumToStr(n \div Len(DigitChars)) \o <<DigitChars[(n % Len(DigitChars)) + 1]>>

\* String(x) for a JavaScript number: Some(n) or NaN
NumberToString(x) == IF x = None THEN <<"N", "a", "N">> ELSE NumToStr(x[1])

RECURSIVE ParseDigits(_, _)
ParseDigits(str, acc) ==
  IF str = <<>> \/ ~IsDigit(Head(str)) THEN acc
  ELSE ParseDigits(Tail(str), acc * Len(DigitChars) + DigitVal(Head(str)))

\* a parse that stops after the first digit
ParseIntOneDigit(str) ==
  IF str = <<>> \/ ~IsDigit(Head(str)) THEN None ELSE Some(DigitVal(Head(str)))

\* parseInt(str, 10): the leading digits, NaN when there are none
ParseInt(str) ==
  IF str = <<>> \/ ~IsDigit(Head(str)) THEN None ELSE Some(ParseDigits(str, 0))

RECURSIVE Split(_, _)
\* String.prototype.split(sep) for a one-character separator
Split(str, sep) ==
  IF \A k \in 1..Len(str) : str[k] # sep THEN <<str>>
  ELSE LET k == CHOOSE j \in 1..Len(str) :
                   str[j] = sep /\ \A h \in 1..(j - 1) : str[h] # sep
       IN <<SubSeq(str, 1, k - 1)>> \o Split(SubSeq(str, k + 1, Len(str)), sep)

IsSpace(tok) == tok \in {" ", "\n"}

RECURSIVE TrimStart(_)
TrimStart(text) ==
  IF text # <<>> /\ IsSpace(Head(text)) THEN TrimStart(Tail(text)) ELSE text

RECURSIVE TrimEnd(_)
TrimEnd(text) ==
  IF text # <<>> /\ IsSpace(text[Len(text)])
  THEN TrimEnd(SubSeq(text, 1, Len(text) - 1)) ELSE text

\* String.prototype.trim
Trim(text) == TrimEnd(TrimStart(text))

\* String.prototype.includes for a phrase that is one token of the text
Includes(text, phrase) == \E k \in 1..Len(text) : text[k] = phrase

\* String.prototype.toLowerCase on the login names of the model
ToLowerCase(str) ==
  CASE str = "Alice" -> "alice"
    [] str = "ALICE" -> "alice"
    [] str = "Bob" -> "bob"
    [] str = "OPEN" -> "open"
    [] str = "CLOSED" -> "closed"
    [] str = "MERGED" -> "merged"
    [] OTHER -> str

\* truthiness of a string given as text
Truthy(text) == text # <<>>

-----------------------------------------------------------------------------
\* The remote source of truth: what a `gh` process can answer

Login == "alice"     \* the login `gh api user` prints, and GITHUB_HANDLE when set

CouldNotResolve == "Could not resolve"

\* stderr of a failed `gh pr view`
StderrTexts ==
  { <<>>,
    <<"\n">>,
    <<"GraphQL:", " ", CouldNotResolve, " ", "to a PullRequest", "\n">>,
    <<" ", "HTTP 502", "\n">> }

PrStates == {"OPEN", "CLOSED", "MERGED"}

\* reviewRequests of a pull request: a team has no login
ReviewRequestLists ==
  { <<>>,
    <<[slug |-> "core"], [login |-> "Bob"]>>,
    <<[slug |-> "core"], [login |-> "Alice"]>> }

\* body of a pull request: words and @-mentions; wordAfter says that a word
\* character follows the handle (as in "@alicex")
Bodies ==
  { <<>>,
    <<[word |-> "thanks"], [at |-> "alice", wordAfter |-> TRUE]>>,
    <<[word |-> "cc"], [at |-> "ALICE", wordAfter |-> FALSE]>> }

PrViewResponses ==
  {[code |-> 1, stderr |-> e] : e \in StderrTexts} \cup
  {[code |-> 0, state |-> st, reviewRequests |-> rr, body |-> b] :
     st \in PrStates, rr \in ReviewRequestLists, b \in Bodies}

-----------------------------------------------------------------------------
\* checkPr (src/src/github/pr.ts:66-132)

\* pr.ts:70  `${repo}#${prNumber}`
CacheKey(repo, prNumber) == repo \o <<"#">> \o NumberToString(prNumber)

\* pr.ts:114-116  reviewRequests.some(r => r.login?.toLowerCase() === user.toLowerCase())
WasRequestedReviewer(reviewRequests, user) ==
  \E k \in 1..Len(reviewRequests) :
     /\ "login" \in DOMAIN reviewRequests[k]
     /\ ToLowerCase(reviewRequests[k].login) = ToLowerCase(user)

\* pr.ts:118-119  new RegExp(`@${user}\\b`, "i").test(body ?? "")
WasMentioned(body, user) ==
  \E k \in 1..Len(body) :
     /\ "at" \in DOMAIN body[k]
     /\ ToLowerCase(body[k].at) = ToLowerCase(user)
     /\ ~body[k].wordAfter

\* pr.ts:104-106  error.includes("Could not resolve") ? "PR not found" : error.trim()
ErrorText(stderr) ==
  IF Includes(stderr, CouldNotResolve) THEN <<"PR not found">> ELSE Trim(stderr)

\* a resolver whose failure branch leaves the error out of the status
CheckPrResultWithoutError(repo, prNumber, user, resp) ==
  IF resp.code # 0
  THEN [repo |-> repo, prNumber |-> prNumber, state |-> "CLOSED",
        isMerged |-> FALSE, wasRequestedReviewer |-> FALSE, wasMentioned |-> FALSE]
  ELSE [repo |-> repo, prNumber |-> prNumber, state |-> resp.state,
        isMerged |-> resp.state = "MERGED",
        wasRequestedReviewer |-> WasRequestedReviewer(resp.reviewRequests, user),
        wasMentioned |-> WasMentioned(resp.body, user)]

\* a resolver that takes every pull request that is not open for merged
CheckPrResultMergedUnlessOpen(repo, prNumber, user, resp) ==
  IF resp.code # 0
  THEN [repo |-> repo, prNumber |-> prNumber, state |-> "CLOSED",
        isMerged |-> FALSE, wasRequestedReviewer |-> FALSE,
        wasMentioned |-> FALSE, error |-> ErrorText(resp.stderr)]
  ELSE [repo |-> repo, prNumber |-> prNumber, state |-> resp.state,
        isMerged |-> resp.state # "OPEN",
        wasRequestedReviewer |-> WasRequestedReviewer(resp.reviewRequests, user),
        wasMentioned |-> WasMentioned(resp.body, user)]

\* pr.ts:95-131, the PrCheckResult built from the output of `gh pr view`
CheckPrResult(repo, prNumber, user, resp) ==
  IF resp.code # 0
  THEN [repo |-> repo, prNumber |-> prNumber, state |-> "CLOSED",
        isMerged |-> FALSE, wasRequestedReviewer |-> FALSE,
        wasMentioned |-> FALSE, error |-> ErrorText(resp.stderr)]
  ELSE [repo |-> repo, prNumber |-> prNumber, state |-> resp.state,
        isMerged |-> resp.state = "MERGED",
        wasRequestedReviewer |-> WasRequestedReviewer(resp.reviewRequests, user),
        wasMentioned |-> WasMentioned(resp.body, user)]

\* a cache that answers only with the statuses that carry no error
CacheHitUnlessError(cacheKey, c) == cacheKey \in DOMAIN c /\ "error" \notin DOMAIN c[cacheKey]

\* a resolver that never answers from the cache
CacheHitNever(cacheKey, c) == FALSE

\* pr.ts:72-75  const cached = cache.get(cacheKey); if (cached) return cached
CacheHit(cacheKey, c) == cacheKey \in DOMAIN c

\* getGitHubUser answering from the memoized user only
KnownUserIgnoringEnv(cached, env) == IF cached # "" THEN Some(cached) ELSE None

\* pr.ts:31-41, getGitHubUser before it has to ask `gh api user`: the memoized
\* user, else the configured handle (which it memoizes); None when neither
KnownUser(cached, env) ==
  IF cached # "" THEN Some(cached)
  ELSE IF env # "" THEN Some(env)
  ELSE None

\* pr.ts:66-93, the synchronous start of checkPr(repo, prNumber) inside the
\* closure of batchCheckPrs, for the item the loop launches. A cache hit
\* returns at once; otherwise getGitHubUser (pr.ts:31-47) returns the memoized
\* or the configured handle, or spawns `gh api user`.
BatchLaunch ==
  /\ caller = "batch"
  /\ rpc = "loop"
  /\ ~exited
  /\ index <= Len(items)
  /\ LET item == items[index]
         cacheKey == CacheKey(item.repo, item.prNumber)
     IN IF CacheHit(cacheKey, cache)
        THEN /\ LoopIteration(<<[t |-> "closure", i |-> index, ok |-> TRUE,
                                 result |-> cache[cacheKey]]>>, "settled")
             /\ UNCHANGED <<cachedUser, identityQueries>>
        ELSE IF KnownUser(cachedUser, envHandle) # None
        THEN /\ cachedUser' = KnownUser(cachedUser, envHandle)[1]
             /\ LoopIteration(<<[t |-> "checkPr", i |-> index,
                                 user |-> KnownUser(cachedUser, envHandle)[1]]>>,
                              "resuming")
             /\ UNCHANGED identityQueries
        ELSE /\ identityQueries' = identityQueries + 1
             /\ LoopIteration(<<>>, "userIO")
             /\ UNCHANGED cachedUser
  /\ UNCHANGED <<cache, envHandle, bpc, prs, checked, opUser, progress,
                 batchResults, lookups, failedKeys,
                 identityFailedKeys, callsLeft>>
  /\ UNCHANGED <<procVars, pendVars>>

\* an identity failure turned into an error-carrying status that is cached
\* and returned, as a failed `gh pr view` is
IdentityDoneAsErrorStatus(i, ok) ==
  /\ caller = "batch"
  /\ CanHandleEvent
  /\ i \in DOMAIN fnst /\ fnst[i] = "userIO"
  /\ LET cacheKey == CacheKey(items[i].repo, items[i].prNumber)
         result == [repo |-> items[i].repo, prNumber |-> items[i].prNumber,
                    state |-> "CLOSED", isMerged |-> FALSE,
                    wasRequestedReviewer |-> FALSE, wasMentioned |-> FALSE,
                    error |-> <<"Failed to get current user">>]
     IN IF ok
        THEN /\ cachedUser' = Login
             /\ fnst' = [fnst EXCEPT ![i] = "resuming"]
             /\ mq' = <<[t |-> "checkPr", i |-> i, user |-> Login]>>
             /\ UNCHANGED <<cache, identityFailedKeys>>
        ELSE /\ cachedUser' = cachedUser
             /\ fnst' = [fnst EXCEPT ![i] = "settled"]
             /\ cache' = [k \in DOMAIN cache \cup {cacheKey} |->
                            IF k = cacheKey THEN result ELSE cache[k]]
             /\ identityFailedKeys' = identityFailedKeys \cup {cacheKey}
             /\ mq' = <<[t |-> "closure", i |-> i, ok |-> TRUE, result |-> result]>>
  /\ UNCHANGED <<caller, items, concurrency, rpc, index, executing, promise,
                 results, agg, unhandled, exited>>
  /\ UNCHANGED <<envHandle, bpc, prs, checked, opUser, progress,
                 batchResults, lookups, identityQueries, failedKeys, callsLeft>>
  /\ UNCHANGED <<procVars, pendVars>>

\* pr.ts:49-60, `gh api user` has exited: a failure is thrown through checkPr
\* (pr.ts:77) and the closure, a success is memoized and checkPr goes on
IdentityDone(i, ok) ==
  /\ caller = "batch"
  /\ CanHandleEvent
  /\ i \in DOMAIN fnst /\ fnst[i] = "userIO"
  /\ IF ok
     THEN /\ cachedUser' = Login
          /\ fnst' = [fnst EXCEPT ![i] = "resuming"]
          /\ mq' = <<[t |-> "checkPr", i |-> i, user |-> Login]>>
          /\ UNCHANGED identityFailedKeys
     ELSE /\ cachedUser' = cachedUser
          /\ fnst' = [fnst EXCEPT ![i] = "settled"]
          /\ identityFailedKeys' =
               identityFailedKeys \cup {CacheKey(items[i].repo, items[i].prNumber)}
          /\ mq' = <<[t |-> "closure", i |-> i, ok |-> FALSE]>>
  /\ UNCHANGED <<caller, items, concurrency, rpc, index, executing, promise,
                 results, agg, unhandled, exited>>
  /\ UNCHANGED <<cache, envHandle, bpc, prs, checked, opUser, progress,
                 batchResults, lookups, identityQueries, failedKeys, callsLeft>>
  /\ UNCHANGED <<procVars, pendVars>>

\* pr.ts:77-93, checkPr resumes with the user and spawns `gh pr view`
JobCheckPr ==
  /\ CanRunJob("checkPr")
  /\ LET j == Head(mq)
         cacheKey == CacheKey(items[j.i].repo, items[j.i].prNumber)
     IN /\ opUser' = [k \in DOMAIN opUser \cup {j.i} |->
                        IF k = j.i THEN j.user ELSE opUser[k]]
        /\ fnst' = [fnst EXCEPT ![j.i] = "prIO"]
        /\ lookups' = [k \in DOMAIN lookups \cup {cacheKey} |->
                         IF k = cacheKey
                         THEN (IF k \in DOMAIN lookups THEN lookups[k] ELSE 0) + 1
                         ELSE lookups[k]]
        /\ mq' = Tail(mq)
  /\ UNCHANGED <<caller, items, concurrency, rpc, index, executing, promise,
                 results, agg, unhandled, exited>>
  /\ UNCHANGED <<cache, cachedUser, envHandle, bpc, prs, checked, progress,
                 batchResults, identityQueries, failedKeys,
                 identityFailedKeys, callsLeft>>
  /\ UNCHANGED <<procVars, pendVars>>

\* pr.ts:93-131, `gh pr view` has exited: the result is built, cached and
\* returned to the closure
PrViewDone(i, resp) ==
  /\ caller = "batch"
  /\ CanHandleEvent
  /\ i \in DOMAIN fnst /\ fnst[i] = "prIO"
  /\ LET cacheKey == CacheKey(items[i].repo, items[i].prNumber)
         result == CheckPrResult(items[i].repo, items[i].prNumber, opUser[i], resp)
     IN /\ cache' = [k \in DOMAIN cache \cup {cacheKey} |->
                       IF k = cacheKey THEN result ELSE cache[k]]
        /\ failedKeys' = IF resp.code # 0 THEN failedKeys \cup {cacheKey} ELSE failedKeys
        /\ mq' = <<[t |-> "closure", i |-> i, ok |-> TRUE, result |-> result]>>
  /\ fnst' = [fnst EXCEPT ![i] = "settled"]
  /\ UNCHANGED <<caller, items, concurrency, rpc, index, executing, promise,
                 results, agg, unhandled, exited>>
  /\ UNCHANGED <<cachedUser, envHandle, bpc, prs, checked, opUser, progress,
                 batchResults, lookups, identityQueries, identityFailedKeys,
                 callsLeft>>
  /\ UNCHANGED <<procVars, pendVars>>

\* a progress report on every tenth completion only
ReportsProgressEveryTenth(n, total) == n % 10 = 0

\* pr.ts:180  checked % 10 === 0 || checked === uniquePrs.length
ReportsProgress(n, total) == n % 10 = 0 \/ n = total

\* pr.ts:177-184, the closure of batchCheckPrs resumes after `await checkPr`
JobClosure ==
  /\ CanRunJob("closure")
  /\ LET j == Head(mq)
     IN IF j.ok
        THEN /\ checked' = checked + 1
             /\ progress' = IF ReportsProgress(checked + 1, Len(items))
                            THEN Append(progress, checked + 1) ELSE progress
             /\ mq' = Append(Tail(mq),
                        [t |-> "iife", i |-> j.i, ok |-> TRUE,
                         v |-> [key |-> items[j.i].key, result |-> j.result]])
        ELSE /\ UNCHANGED <<checked, progress>>
             /\ mq' = Append(Tail(mq), [t |-> "iife", i |-> j.i, ok |-> FALSE, v |-> <<>>])
  /\ UNCHANGED <<caller, items, concurrency, rpc, index, executing, promise,
                 results, agg, fnst, unhandled, exited>>
  /\ UNCHANGED <<cache, cachedUser, envHandle, bpc, prs, opUser, batchResults,
                 lookups, identityQueries, failedKeys,
                 identityFailedKeys, callsLeft>>
  /\ UNCHANGED <<procVars, pendVars>>

-----------------------------------------------------------------------------
\* batchCheckPrs (src/src/github/pr.ts:159-192)

\* pr.ts:163  `${p.repo}#${p.prNumber}`
PrKey(p) == p.repo \o <<"#">> \o NumberToString(p.prNumber)

\* the keys taken as they come, duplicates included
DedupNone(seq) == seq

RECURSIVE DedupLastSeen(_)
\* the distinct keys in the order of their last occurrence
DedupLastSeen(seq) ==
  IF seq = <<>> THEN <<>>
  ELSE LET rest == DedupLastSeen(Tail(seq))
       IN IF \E k \in 1..Len(rest) : rest[k] = Head(seq) THEN rest
          ELSE <<Head(seq)>> \o rest

RECURSIVE Dedup(_)
\* pr.ts:163  [...new Set(keys)]: the distinct keys in first-seen order
Dedup(seq) ==
  IF seq = <<>> THEN <<>>
  ELSE LET front == Dedup(SubSeq(seq, 1, Len(seq) - 1))
           last == seq[Len(seq)]
       IN IF \E k \in 1..Len(front) : front[k] = last THEN front
          ELSE Append(front, last)

UniqueKeys(prsList) == Dedup([k \in 1..Len(prsList) |-> PrKey(prsList[k])])

\* pr.ts:164-167  const [repo, prNumStr] = key.split("#"); parseInt(prNumStr, 10)
UniquePrs(prsList) ==
  LET keys == UniqueKeys(prsList)
  IN [k \in 1..Len(keys) |->
        LET parts == Split(keys[k], "#")
        IN [repo |-> parts[1],
            prNumber |-> IF Len(parts) >= 2 THEN ParseInt(parts[2]) ELSE None,
            key |-> keys[k]]]

\* pr.ts:171
BatchConcurrency == 10

\* pr.ts:162-176, batchCheckPrs up to its await of the runner
BatchEnter(prsList) ==
  /\ prs' = prsList
  /\ bpc' = "running"
  /\ caller' = "batch"
  /\ checked' = 0
  /\ opUser' = [i \in {} |-> ""]
  /\ RunnerEnter(UniquePrs(prsList), BatchConcurrency)
  /\ UNCHANGED <<mq, unhandled, exited>>
  /\ progress' = <<>>
  /\ UNCHANGED <<cache, cachedUser, envHandle, batchResults, lookups,
                 identityQueries, failedKeys,
                 identityFailedKeys>>

RECURSIVE MapOfResults(_)
\* pr.ts:187-189  for (const { key, result } of checkResults) results.set(key, result)
MapOfResults(checkResults) ==
  IF checkResults = <<>> THEN [k \in {} |-> <<>>]
  ELSE LET front == MapOfResults(SubSeq(checkResults, 1, Len(checkResults) - 1))
           last == checkResults[Len(checkResults)]
       IN [k \in DOMAIN front \cup {last.key} |->
             IF k = last.key THEN last.result ELSE front[k]]

\* pr.ts:174-191, batchCheckPrs resumes from the runner: it builds and returns
\* the map, or the runner's error (or the TypeError of destructuring a slot
\* that was never written) passes through to the caller
JobBatch ==
  /\ CanRunJob("batch")
  /\ LET j == Head(mq)
         complete == j.ok /\ DOMAIN results = 1..Len(items)
     IN /\ bpc' = IF complete THEN "returned" ELSE "threw"
        /\ batchResults' = IF complete THEN MapOfResults(results) ELSE batchResults
        /\ mq' = Tail(mq) \o
                 (IF ppc = "batch" THEN <<[t |-> "process", ok |-> complete]>> ELSE <<>>)
  /\ UNCHANGED <<caller, items, concurrency, rpc, index, executing, promise,
                 results, agg, fnst, unhandled, exited>>
  /\ UNCHANGED <<cache, cachedUser, envHandle, prs, checked, opUser, progress,
                 lookups, identityQueries, failedKeys,
                 identityFailedKeys, callsLeft>>
  /\ UNCHANGED <<procVars, pendVars>>

-----------------------------------------------------------------------------
\* batchMoveToTrash of the three mailbox adapters
\* (src/src/ms-graph/auth.ts:204-245, src/unnamed/part_004:226-257,
\*  src/unnamed/part_005:194-270)

\* ms-graph batchMoveToTrash: const batchSize = 20
GraphBatchSize == 20

\* ews batchMoveToTrash: const batchSize = 50
EwsBatchSize == 50

BatchSizeOf(backend) == IF backend = "graph" THEN GraphBatchSize ELSE EwsBatchSize

\* Math.min
Min(a, b) == IF a <= b THEN a ELSE b

\* the batch count rounded downwards
FloorDiv(n, size) == n \div size

\* Math.ceil(n / size) for n >= 0
CeilDiv(n, size) == (n + size - 1) \div size

\* Array.from({ length: Math.ceil(list.length / batchSize) },
\*            (_, i) => list.slice(i * batchSize, (i + 1) * batchSize))
Slices(list, size) ==
  [i \in 1..CeilDiv(Len(list), size) |->
     SubSeq(list, (i - 1) * size + 1, Min(i * size, Len(list)))]

\* ms-graph/auth.ts:238 and part_004:254
\* Math.min((batchIndex + 1) * batchSize, list.length), batchIndex counted from 0
Processed(batchIndex, batchSize, total) == Min((batchIndex + 1) * batchSize, total)

\* part_005:200  `${email.account}|||${email.mailbox}`
MailboxKey(email) == <<email.account, "|||", email.mailbox>>

RECURSIVE ByMailbox(_)
\* part_005:197-204, the entries of the Map byMailbox in insertion order
ByMailbox(list) ==
  IF list = <<>> THEN <<>>
  ELSE LET front == ByMailbox(SubSeq(list, 1, Len(list) - 1))
           last == list[Len(list)]
           key == MailboxKey(last)
       IN IF \E k \in 1..Len(front) : front[k].key = key
          THEN [k \in 1..Len(front) |->
                  IF front[k].key = key
                  THEN [key |-> key, emails |-> Append(front[k].emails, last)]
                  ELSE front[k]]
          ELSE Append(front, [key |-> key, emails |-> <<last>>])

\* what can happen to one Graph $batch or EWS MoveItem request: the access
\* token cannot be obtained, the response is not ok, the response is ok, or
\* the response is ok and reports inside its body that one move failed
RequestOutcomes == {"noToken", "error", "ok", "partial"}

\* what osascript can answer for a mailbox of n candidates: a non-zero exit
\* code, or the count the script printed (nothing printed when it is cut short)
ScriptOutcomes(n) ==
  {[code |-> 1, stdout |-> <<>>], [code |-> 0, stdout |-> <<>>]} \cup
  {[code |-> 0, stdout |-> NumToStr(c)] : c \in 0..n}

\* part_005:245  parseInt(countStr, 10) || 0
DeletedCount(countStr) ==
  LET p == ParseInt(countStr) IN IF p = None THEN 0 ELSE p[1]

NoResult == [succeeded |-> 0, failed |-> 0, errors |-> 0]

\* the synchronous start of batchMoveToTrash(list): the batches are computed
\* and the first request goes out; an empty list returns at once
MoveEnter(backend, list) ==
  LET batches == IF backend = "mail-app" THEN ByMailbox(list)
                 ELSE Slices(list, BatchSizeOf(backend))
  IN /\ mvBackend' = backend
     /\ mvBatches' = batches
     /\ mvIndex' = 1
     /\ mvResult' = NoResult
     /\ sent' = <<>>
     /\ actualFailed' = 0
     /\ mvProgress' = <<>>
     /\ mpc' = IF batches = <<>> THEN "returned" ELSE "sending"

\* processor.ts:195-218, processEmails while it awaits batchMoveToTrash: a
\* rejection passes through processEmails and nothing handles it
ProcessAfterMove(threw, returned) ==
  /\ ppc' = IF ppc # "moving" THEN ppc
            ELSE IF threw THEN "failed"
            ELSE IF returned THEN "done" ELSE "moving"
  /\ unhandled' = (unhandled \/ (ppc = "moving" /\ threw))

\* ms-graph/auth.ts:223-244 and part_004:252-256 (with ewsRequest,
\* part_004:29-50): the request of batch mvIndex has completed. Only the
\* status of the response is looked at.
SendDone(outcome) ==
  /\ mpc = "sending"
  /\ mvBackend \in {"graph", "ews"}
  /\ CanHandleEvent
  /\ LET batch == mvBatches[mvIndex]
         threw == outcome \in {"noToken", "error"}
         last == mvIndex = Len(mvBatches)
     IN /\ sent' = IF outcome = "noToken" THEN sent ELSE Append(sent, batch)
        /\ actualFailed' = actualFailed +
                             (CASE outcome = "ok" -> 0
                                [] outcome = "partial" -> 1
                                [] OTHER -> Len(batch))
        /\ mvProgress' = IF threw THEN mvProgress
                          ELSE Append(mvProgress,
                                      Processed(mvIndex - 1, BatchSizeOf(mvBackend),
                                                Len(moved[Len(moved)].list)))
        /\ mpc' = IF threw THEN "threw" ELSE IF last THEN "returned" ELSE "sending"
        /\ mvIndex' = IF threw \/ last THEN mvIndex ELSE mvIndex + 1
        /\ ProcessAfterMove(threw, ~threw /\ last)
  /\ UNCHANGED <<mvBackend, mvBatches, mvResult>>
  /\ UNCHANGED <<emails, options, now, prToDelete, ciToDelete, allToDelete, moved>>
  /\ UNCHANGED <<caller, items, concurrency, rpc, index, executing, promise,
                 results, agg, mq, fnst, exited>>
  /\ UNCHANGED <<batchVars, pendVars>>

\* part_005:243-260, the script of mailbox entry mvIndex has ended: a short
\* count and an error are recorded in result and the loop goes on
ScriptDone(outcome) ==
  /\ mpc = "sending"
  /\ mvBackend = "mail-app"
  /\ CanHandleEvent
  /\ LET mailboxEmails == mvBatches[mvIndex].emails
         expectedCount == Len(mailboxEmails)
         deletedCount == DeletedCount(outcome.stdout)
         last == mvIndex = Len(mvBatches)
     IN /\ outcome \in ScriptOutcomes(expectedCount)
        /\ sent' = Append(sent, mailboxEmails)
        /\ IF outcome.code = 0
           THEN /\ mvResult' =
                     [succeeded |-> mvResult.succeeded + deletedCount,
                      failed |-> mvResult.failed +
                                 (IF deletedCount < expectedCount
                                  THEN expectedCount - deletedCount ELSE 0),
                      errors |-> mvResult.errors +
                                 (IF deletedCount < expectedCount THEN 1 ELSE 0)]
                /\ actualFailed' = actualFailed + (expectedCount - deletedCount)
           ELSE /\ mvResult' = [mvResult EXCEPT !.failed = @ + expectedCount,
                                                !.errors = @ + 1]
                /\ actualFailed' = actualFailed + expectedCount
        /\ mpc' = IF last THEN "returned" ELSE "sending"
        /\ mvIndex' = IF last THEN mvIndex ELSE mvIndex + 1
        /\ ProcessAfterMove(FALSE, last)
  /\ UNCHANGED <<mvBackend, mvBatches, mvProgress>>
  /\ UNCHANGED <<emails, options, now, prToDelete, ciToDelete, allToDelete, moved>>
  /\ UNCHANGED <<caller, items, concurrency, rpc, index, executing, promise,
                 results, agg, mq, fnst, exited>>
  /\ UNCHANGED <<batchVars, pendVars>>

-----------------------------------------------------------------------------
\* processEmails (src/src/processor.ts:44-219)

\* truthiness of email.repo (string | null) and email.prNumber (number | null)
TruthyRepo(e) == e.repo # None /\ e.repo[1] # <<>>
TruthyNumber(e) == e.prNumber # None /\ e.prNumber[1] # 0

\* processor.ts:77  emails.filter((e) => e.repo && e.prNumber)
IsPrEmail(e) == TruthyRepo(e) /\ TruthyNumber(e)

\* processor.ts:78  emails.filter((e) => !e.repo || !e.prNumber)
IsNonPrEmail(e) == ~TruthyRepo(e) \/ ~TruthyNumber(e)

RECURSIVE PrEmails(_)
\* processor.ts:77  prEmails
PrEmails(list) ==
  IF list = <<>> THEN <<>>
  ELSE (IF IsPrEmail(Head(list)) THEN <<Head(list)>> ELSE <<>>) \o PrEmails(Tail(list))

\* the CI pass given every fetched email
AllEmails(list) == list

RECURSIVE NonPrEmails(_)
\* processor.ts:78  nonPrEmails
NonPrEmails(list) ==
  IF list = <<>> THEN <<>>
  ELSE (IF IsNonPrEmail(Head(list)) THEN <<Head(list)>> ELSE <<>>)
       \o NonPrEmails(Tail(list))

\* processor.ts:87  prEmails.map((e) => ({ repo: e.repo!, prNumber: e.prNumber! }))
PrRefs(list) ==
  [k \in 1..Len(list) |-> [repo |-> list[k].repo[1], prNumber |-> list[k].prNumber]]

\* processor.ts:91  `${email.repo}#${email.prNumber}`
EmailKey(e) == e.repo[1] \o <<"#">> \o NumberToString(e.prNumber)

\* processor.ts:96-98  if (prResult.error) continue
KeptForError(prResult) == "error" \in DOMAIN prResult /\ Truthy(prResult.error)

\* the state check applied to CLOSED instead of OPEN
KeptForOpenWrongState(prResult) == prResult.state = "CLOSED"

\* processor.ts:100-102  if (prResult.state === "OPEN") continue
KeptForOpen(prResult) == prResult.state = "OPEN"

\* the mention check with the override inverted
KeptForMentionInverted(prResult, opts) == opts.skipMentions /\ prResult.wasMentioned

\* processor.ts:104-106  if (!options.skipMentions && prResult.wasMentioned) continue
KeptForMention(prResult, opts) == ~opts.skipMentions /\ prResult.wasMentioned

\* the review-request check made to depend on the mention override
KeptForReviewRequestWrongFlag(prResult, opts) ==
  ~opts.skipMentions /\ prResult.wasRequestedReviewer

\* processor.ts:108-110  if (!options.skipReviewRequests && prResult.wasRequestedReviewer) continue
KeptForReviewRequest(prResult, opts) ==
  ~opts.skipReviewRequests /\ prResult.wasRequestedReviewer

\* the reason with the whole text in lower case
PrReasonAllLower(prResult) ==
  ToLowerCase(prResult.state) \o " pr, not specifically mentioned"

\* the reason built from the state as the remote spells it
PrReasonRawState(prResult) == prResult.state \o " PR, not specifically mentioned"

\* processor.ts:115-116  `${prResult.state.toLowerCase()} PR, not specifically mentioned`
PrReason(prResult) == ToLowerCase(prResult.state) \o " PR, not specifically mentioned"

RECURSIVE PrPass(_, _, _)
\* processor.ts:90-118, the loop over prEmails
PrPass(list, prResults, opts) ==
  IF list = <<>> THEN <<>>
  ELSE LET email == Head(list)
           rest == PrPass(Tail(list), prResults, opts)
           key == EmailKey(email)
       IN IF key \notin DOMAIN prResults THEN rest
          ELSE LET prResult == prResults[key]
               IN IF KeptForError(prResult) THEN rest
                  ELSE IF KeptForOpen(prResult) THEN rest
                  ELSE IF KeptForMention(prResult, opts) THEN rest
                  ELSE IF KeptForReviewRequest(prResult, opts) THEN rest
                  ELSE <<[email |-> email, prResult |-> prResult,
                          reason |-> PrReason(prResult)]>> \o rest

\* processor.ts:125-131, the source text of the five patterns; a subject is
\* a sequence of one-character strings
CiPatterns ==
  { \* Run failed
    <<"R", "u", "n", " ", "f", "a", "i", "l", "e", "d">>,
    \* Run succeeded
    <<"R", "u", "n", " ", "s", "u", "c", "c", "e", "e", "d", "e", "d">>,
    \* Run cancelled
    <<"R", "u", "n", " ", "c", "a", "n", "c", "e", "l", "l", "e", "d">>,
    \* Run skipped
    <<"R", "u", "n", " ", "s", "k", "i", "p", "p", "e", "d">>,
    \* workflow run
    <<"w", "o", "r", "k", "f", "l", "o", "w", " ", "r", "u", "n">> }

UpperChars == <<"A","B","C","D","E","F","G","H","I","J","K","L","M","N","O","P","Q","R","S","T","U","V","W","X","Y","Z">>
LowerChars == <<"a","b","c","d","e","f","g","h","i","j","k","l","m","n","o","p","q","r","s","t","u","v","w","x","y","z">>

\* the case folding of the i flag, on one character
LowerChar(c) ==
  IF \E k \in 1..Len(UpperChars) : UpperChars[k] = c
  THEN LowerChars[CHOOSE k \in 1..Len(UpperChars) : UpperChars[k] = c]
  ELSE c

\* RegExp.prototype.test for a pattern of literal characters with the i flag:
\* the pattern occurs somewhere in the text, letter case ignored
TestIgnoreCase(pat, text) ==
  \E off \in 0..(Len(text) - Len(pat)) :
     \A j \in 1..Len(pat) : LowerChar(text[off + j]) = LowerChar(pat[j])

\* processor.ts:134  ciPatterns.some((p) => p.test(email.subject))
IsCiEmail(subject) == \E pat \in CiPatterns : TestIgnoreCase(pat, subject)

\* processor.ts:122-123  cutoffDate.setDate(cutoffDate.getDate() - options.ciDays)
CutoffDate(today, days) == today - days

\* the age test with the cutoff itself counted as old
OlderThanOrAt(emailDate, cutoffDate) == emailDate <= cutoffDate

\* processor.ts:138  emailDate < cutoffDate
OlderThan(emailDate, cutoffDate) == emailDate < cutoffDate

RECURSIVE CiPass(_, _, _)
\* processor.ts:122-144, the loop over nonPrEmails; days is options.ciDays,
\* today the day of `new Date()`
CiPass(list, days, today) ==
  IF list = <<>> THEN <<>>
  ELSE LET email == Head(list)
           rest == CiPass(Tail(list), days, today)
           cutoffDate == CutoffDate(today, days)
       IN IF ~IsCiEmail(email.subject) THEN rest
          ELSE IF OlderThan(email.receivedDateTime, cutoffDate)
          THEN <<[email |-> email,
                  reason |-> "CI email older than " \o ToString(days) \o " days"]>> \o rest
          ELSE rest

EmailsOf(candidates) == [k \in 1..Len(candidates) |-> candidates[k].email]

\* an unset threshold replaced by a default of three days
CiThresholdDefaulted(opts) == IF opts.ciDays = None THEN Some(3) ELSE opts.ciDays

\* processor.ts:121-123  options.ciDays (None is undefined)
CiThreshold(opts) == opts.ciDays

\* the two candidate lists joined with the CI candidates first
AllToDeleteCiFirst(prDel, ciDel) == EmailsOf(ciDel) \o EmailsOf(prDel)

\* processor.ts:147-150  [...prToDelete.map((d) => d.email), ...ciToDelete.map((d) => d.email)]
AllToDelete(prDel, ciDel) == EmailsOf(prDel) \o EmailsOf(ciDel)

\* the hand-over without the dry-run exit
HandsOverUnconfirmed(all, opts) == all # <<>>

\* processor.ts:177-191, the two early returns before the backend is called:
\* nothing to delete, and the dry run
HandsOver(all, opts) == all # <<>> /\ opts.confirm

\* processor.ts:195-216, the argument each backend's batchMoveToTrash is given
MoveItems(backend, all) ==
  CASE backend = "mail-app" ->
         [k \in 1..Len(all) |-> [account |-> all[k].account,
                                 mailbox |-> all[k].mailbox, id |-> all[k].id]]
    [] backend = "ews" ->
         [k \in 1..Len(all) |-> [id |-> all[k].id, changeKey |-> all[k].changeKey]]
    [] OTHER -> [k \in 1..Len(all) |-> all[k].id]

\* processor.ts:121-218, from the CI pass to the hand-over to the backend
Decide(prDel) ==
  LET nonPrEmails == NonPrEmails(emails)
      ciDel == IF CiThreshold(options) # None /\ nonPrEmails # <<>>
               THEN CiPass(nonPrEmails, CiThreshold(options)[1], now) ELSE <<>>
      all == AllToDelete(prDel, ciDel)
  IN /\ prToDelete' = prDel
     /\ ciToDelete' = ciDel
     /\ allToDelete' = all
     /\ IF HandsOver(all, options)
        THEN /\ ppc' = "moving"
             /\ moved' = Append(moved, [backend |-> options.backend,
                                        list |-> MoveItems(options.backend, all)])
             /\ MoveEnter(options.backend, MoveItems(options.backend, all))
        ELSE /\ ppc' = "done"
             /\ moved' = moved
             /\ UNCHANGED moveVars

\* processor.ts:44-88, processEmails from the fetched emails to its first await
ProcessStart ==
  /\ ppc = "init"
  /\ ~exited
  /\ IF emails = <<>>
     THEN /\ ppc' = "done"
          /\ UNCHANGED <<prToDelete, ciToDelete, allToDelete, moved, moveVars>>
          /\ UNCHANGED <<runnerVars, batchVars>>
     ELSE IF PrEmails(emails) # <<>>
     THEN /\ ppc' = "batch"
          /\ BatchEnter(PrRefs(PrEmails(emails)))
          /\ UNCHANGED <<prToDelete, ciToDelete, allToDelete, moved, moveVars>>
          /\ UNCHANGED callsLeft
     ELSE /\ Decide(<<>>)
          /\ UNCHANGED <<runnerVars, batchVars>>
  /\ UNCHANGED <<emails, options, now, pendVars>>

\* processor.ts:86-218, processEmails resumes from batchCheckPrs; an error of
\* the batch call rejects processEmails and nothing handles it
JobProcess ==
  /\ CanRunJob("process")
  /\ LET j == Head(mq)
     IN IF j.ok
        THEN /\ Decide(PrPass(PrEmails(emails), batchResults, options))
             /\ unhandled' = unhandled
        ELSE /\ ppc' = "failed"
             /\ unhandled' = TRUE
             /\ UNCHANGED <<prToDelete, ciToDelete, allToDelete, moved, moveVars>>
  /\ mq' = Tail(mq)
  /\ UNCHANGED <<caller, items, concurrency, rpc, index, executing, promise,
                 results, agg, fnst, exited>>
  /\ UNCHANGED <<batchVars, pendVars>>
  /\ UNCHANGED <<emails, options, now>>

-----------------------------------------------------------------------------
\* listPendingReviews (src/src/github/pr.ts:194-385). A login is a sequence of
\* one-character strings; title and url of a pull request are carried through
\* unchanged and left out.

\* pr.ts:208  const BOT_AUTHORS = ["dependabot", "es-robot"]
BOT_AUTHORS ==
  { <<"d", "e", "p", "e", "n", "d", "a", "b", "o", "t">>,
    <<"e", "s", "-", "r", "o", "b", "o", "t">> }

\* String.prototype.toLowerCase on a text of characters
LowerText(text) == [k \in 1..Len(text) |-> LowerChar(text[k])]

\* String.prototype.includes on texts of characters
IncludesText(text, part) ==
  \E off \in 0..(Len(text) - Len(part)) :
     \A j \in 1..Len(part) : text[off + j] = part[j]

\* the bot test on the login as it is spelled
IsBotAuthorCaseSensitive(login) == \E bot \in BOT_AUTHORS : IncludesText(login, bot)

\* pr.ts:255  BOT_AUTHORS.some(bot => pr.author.login.toLowerCase().includes(bot))
IsBotAuthor(login) == \E bot \in BOT_AUTHORS : IncludesText(LowerText(login), bot)

RECURSIVE WithoutBots(_)
\* pr.ts:254-256  results.filter((pr) => !BOT_AUTHORS.some(...))
WithoutBots(list) ==
  IF list = <<>> THEN <<>>
  ELSE (IF IsBotAuthor(Head(list).author.login) THEN <<>> ELSE <<Head(list)>>)
       \o WithoutBots(Tail(list))

\* pr.ts:252-260  if (options.excludeBots) results = results.filter(...)
BotFilter(list, exclude) == IF exclude THEN WithoutBots(list) ELSE list

\* pr.ts:307-309  reviewData.reviews.filter((r) => r.state === "APPROVED").length
Approvals(reviews) ==
  Cardinality({k \in 1..Len(reviews) : reviews[k].state = "APPROVED"})

\* Math.max
Max(a, b) == IF a >= b THEN a ELSE b

\* the count of missing approvals left unclamped
ApprovalsNeededUnclamped(reviewDecision, approvals) ==
  IF reviewDecision = "APPROVED" THEN 0
  ELSE IF reviewDecision = "CHANGES_REQUESTED" THEN -1
  ELSE 2 - approvals

\* pr.ts:311-315
ApprovalsNeeded(reviewDecision, approvals) ==
  IF reviewDecision = "APPROVED" THEN 0
  ELSE IF reviewDecision = "CHANGES_REQUESTED" THEN -1
  ELSE Max(0, 2 - approvals)

\* a fetch that reports a pull request whose detail query failed as one with
\* no review yet
FetchPrDetailsResultKeepingFailed(pr, detail) ==
  IF detail.code # 0
  THEN Some([repo |-> pr.repository.nameWithOwner, number |-> pr.number,
             author |-> pr.author.login, approvalsNeeded |-> 2, approvals |-> 0])
  ELSE Some([repo |-> pr.repository.nameWithOwner, number |-> pr.number,
             author |-> pr.author.login,
             approvalsNeeded |-> ApprovalsNeeded(detail.reviewDecision,
                                                 Approvals(detail.reviews)),
             approvals |-> Approvals(detail.reviews)])

\* pr.ts:296-325, what fetchPrDetails returns: null or a PendingPr
FetchPrDetailsResult(pr, detail) ==
  IF detail.code # 0 THEN None
  ELSE Some([repo |-> pr.repository.nameWithOwner,
             number |-> pr.number,
             author |-> pr.author.login,
             approvalsNeeded |-> ApprovalsNeeded(detail.reviewDecision,
                                                 Approvals(detail.reviews)),
             approvals |-> Approvals(detail.reviews)])

RECURSIVE NonNull(_)
\* pr.ts:329  prResults.filter((p): p is PendingPr => p !== null)
NonNull(prResults) ==
  IF prResults = <<>> THEN <<>>
  ELSE (IF Head(prResults) = None THEN <<>> ELSE <<Head(prResults)[1]>>)
       \o NonNull(Tail(prResults))

\* a bucket test that also takes the pull requests with nothing missing
NeedsMoreOrNone(p) == p.approvalsNeeded # 1 /\ p.approvalsNeeded # -1

\* pr.ts:335  p.approvalsNeeded > 1
NeedsMore(p) == p.approvalsNeeded > 1

\* pr.ts:329-336 and 384, the lists the report is printed from
Report(prResults) ==
  LET pendingPrs == NonNull(prResults)
  IN [pendingPrs |-> pendingPrs,
      needsOneApproval |-> SelectSeq(pendingPrs, LAMBDA p : p.approvalsNeeded = 1),
      changesRequested |-> SelectSeq(pendingPrs, LAMBDA p : p.approvalsNeeded = -1),
      needsMoreApprovals |-> SelectSeq(pendingPrs, NeedsMore),
      approved |-> SelectSeq(pendingPrs, LAMBDA p : p.approvalsNeeded = 0),
      total |-> Len(pendingPrs)]

\* pr.ts:328  runWithConcurrency(results, 10, fetchPrDetails)
PendingConcurrency == 10

\* pr.ts:210-234, listPendingReviews({ excludeBots }) is called: getGitHubUser
\* (pr.ts:31-47) returns the memoized or the configured handle and the search
\* goes out, or `gh api user` is spawned first
PendingCall(exclude) ==
  /\ lpc = "idle" /\ bpc = "idle" /\ ppc = "idle"
  /\ CanHandleEvent
  /\ excludeBots' = exclude
  /\ caller' = "pending"
  /\ IF KnownUser(cachedUser, envHandle) # None
     THEN /\ lpc' = "search"
          /\ cachedUser' = KnownUser(cachedUser, envHandle)[1]
          /\ searchUser' = KnownUser(cachedUser, envHandle)[1]
          /\ UNCHANGED identityQueries
     ELSE /\ lpc' = "user"
          /\ identityQueries' = identityQueries + 1
          /\ UNCHANGED <<cachedUser, searchUser>>
  /\ UNCHANGED <<items, concurrency, rpc, index, executing, promise, results, agg,
                 mq, fnst, unhandled, exited>>
  /\ UNCHANGED <<cache, envHandle, bpc, prs, checked, opUser, progress,
                 batchResults, lookups, failedKeys, identityFailedKeys, callsLeft>>
  /\ UNCHANGED <<found, processed, fetched, details, report>>
  /\ UNCHANGED procVars

\* pr.ts:49-60 and 213-234, `gh api user` has exited for listPendingReviews: a
\* failure rejects listPendingReviews, a success is memoized and the search
\* goes out
PendingIdentityDone(ok) ==
  /\ lpc = "user"
  /\ CanHandleEvent
  /\ IF ok
     THEN /\ cachedUser' = Login
          /\ searchUser' = Login
          /\ lpc' = "search"
          /\ UNCHANGED unhandled
     ELSE /\ lpc' = "threw"
          /\ unhandled' = TRUE
          /\ UNCHANGED <<cachedUser, searchUser>>
  /\ UNCHANGED <<caller, items, concurrency, rpc, index, executing, promise,
                 results, agg, mq, fnst, exited>>
  /\ UNCHANGED <<cache, envHandle, bpc, prs, checked, opUser, progress,
                 batchResults, lookups, identityQueries, failedKeys,
                 identityFailedKeys, callsLeft>>
  /\ UNCHANGED <<excludeBots, found, processed, fetched, details, report>>
  /\ UNCHANGED procVars

\* pr.ts:234-328, `gh search prs` has exited: a failure is logged and
\* listPendingReviews returns; otherwise the results are parsed and filtered,
\* and unless none is left the runner is entered
SearchDone(resp) ==
  /\ lpc = "search"
  /\ CanHandleEvent
  /\ IF resp.code # 0
     THEN /\ lpc' = "returned"
          /\ UNCHANGED <<found, processed>>
          /\ UNCHANGED <<items, concurrency, rpc, index, executing, promise, results,
                         agg, fnst>>
     ELSE LET filtered == BotFilter(resp.results, excludeBots)
          IN /\ found' = resp.results
             /\ IF filtered = <<>>
                THEN /\ lpc' = "returned"
                     /\ UNCHANGED processed
                     /\ UNCHANGED <<items, concurrency, rpc, index, executing, promise,
                                    results, agg, fnst>>
                ELSE /\ lpc' = "details"
                     /\ processed' = 0
                     /\ RunnerEnter(filtered, PendingConcurrency)
  /\ UNCHANGED <<caller, mq, unhandled, exited>>
  /\ UNCHANGED batchVars
  /\ UNCHANGED <<excludeBots, searchUser, fetched, details, report>>
  /\ UNCHANGED procVars

\* pr.ts:274-288, the loop of the runner launches fetchPrDetails(pr), which
\* spawns the detail `gh pr view` and suspends
PendingLaunch ==
  /\ caller = "pending"
  /\ rpc = "loop"
  /\ ~exited
  /\ index <= Len(items)
  /\ LoopIteration(<<>>, "detailIO")
  /\ fetched' = Append(fetched, items[index])
  /\ UNCHANGED batchVars
  /\ UNCHANGED <<lpc, excludeBots, searchUser, found, processed, details, report>>
  /\ UNCHANGED procVars

\* pr.ts:288-326, the detail `gh pr view` of item i has exited: processed is
\* advanced and written out, and fetchPrDetails returns null or the PendingPr
DetailDone(i, detail) ==
  /\ caller = "pending"
  /\ CanHandleEvent
  /\ i \in DOMAIN fnst /\ fnst[i] = "detailIO"
  /\ processed' = processed + 1
  /\ details' = [k \in DOMAIN details \cup {i} |-> IF k = i THEN detail ELSE details[k]]
  /\ fnst' = [fnst EXCEPT ![i] = "settled"]
  /\ mq' = <<[t |-> "iife", i |-> i, ok |-> TRUE,
              v |-> FetchPrDetailsResult(items[i], detail)]>>
  /\ UNCHANGED <<caller, items, concurrency, rpc, index, executing, promise,
                 results, agg, unhandled, exited>>
  /\ UNCHANGED batchVars
  /\ UNCHANGED <<lpc, excludeBots, searchUser, found, fetched, report>>
  /\ UNCHANGED procVars

\* pr.ts:328-384, listPendingReviews resumes from the runner and prints the
\* report; an error of the runner rejects listPendingReviews
JobPending ==
  /\ CanRunJob("pending")
  /\ LET j == Head(mq)
     IN IF j.ok
        THEN /\ lpc' = "returned"
             /\ report' = Report(results)
             /\ UNCHANGED unhandled
        ELSE /\ lpc' = "threw"
             /\ unhandled' = TRUE
             /\ UNCHANGED report
  /\ mq' = Tail(mq)
  /\ UNCHANGED <<caller, items, concurrency, rpc, index, executing, promise,
                 results, agg, fnst, exited>>
  /\ UNCHANGED batchVars
  /\ UNCHANGED <<excludeBots, searchUser, found, processed, fetched, details>>
  /\ UNCHANGED procVars

-----------------------------------------------------------------------------
\* Specification of the runner taken on its own: every input list up to
\* MaxItems, every limit up to MaxConc, every completion order and outcome.

NoOptions == [skipMentions |-> FALSE, skipReviewRequests |-> FALSE,
              ciDays |-> <<>>, confirm |-> FALSE, backend |-> "graph"]

ModuleLoaded ==
  /\ cache = [k \in {} |-> <<>>]
  /\ cachedUser = ""
  /\ bpc = "idle"
  /\ prs = <<>>
  /\ checked = 0
  /\ opUser = [i \in {} |-> ""]
  /\ progress = <<>>
  /\ batchResults = [k \in {} |-> <<>>]
  /\ lookups = [k \in {} |-> 0]
  /\ identityQueries = 0
  /\ failedKeys = {}
  /\ identityFailedKeys = {}

MoveIdle ==
  /\ mpc = "idle"
  /\ mvBackend = "none"
  /\ mvBatches = <<>>
  /\ mvIndex = 1
  /\ mvResult = NoResult
  /\ sent = <<>>
  /\ actualFailed = 0
  /\ mvProgress = <<>>

NoReport == [pendingPrs |-> <<>>, needsOneApproval |-> <<>>, changesRequested |-> <<>>,
             needsMoreApprovals |-> <<>>, approved |-> <<>>, total |-> 0]

PendingIdle ==
  /\ lpc = "idle"
  /\ excludeBots = FALSE
  /\ searchUser = ""
  /\ found = <<>>
  /\ processed = 0
  /\ fetched = <<>>
  /\ details = [i \in {} |-> <<>>]
  /\ report = NoReport

ProcessIdle ==
  /\ ppc = "idle"
  /\ prToDelete = <<>>
  /\ ciToDelete = <<>>
  /\ allToDelete = <<>>
  /\ moved = <<>>
  /\ MoveIdle
  /\ PendingIdle

RunnerInit ==
  /\ caller = "generic"
  /\ items \in SeqsUpTo(GenericItems, MaxItems)
  /\ concurrency \in 1..MaxConc
  /\ rpc = "loop"
  /\ index = 1
  /\ executing = {}
  /\ promise = [i \in {} |-> "pending"]
  /\ results = [i \in {} |-> <<>>]
  /\ agg = NoAgg
  /\ mq = <<>>
  /\ fnst = [i \in {} |-> "pending"]
  /\ unhandled = FALSE
  /\ exited = FALSE
  /\ ModuleLoaded
  /\ envHandle = ""
  /\ callsLeft = 0
  /\ emails = <<>>
  /\ options = NoOptions
  /\ now = 0
  /\ ProcessIdle

RunnerNext ==
  \/ GenericLaunch
  \/ LoopEnd
  \/ \E i \in 1..(MaxItems + 1), ok \in BOOLEAN : GenericSettle(i, ok)
  \/ JobIife
  \/ JobFinally
  \/ JobAgg
  \/ RunnerResume
  \/ UncaughtExit

SpecRunner == RunnerInit /\ [][RunnerNext]_vars

\* the event loop keeps going: a job that can run is run, an operation that
\* can complete completes, for as long as the process lives
SpecRunnerLive == SpecRunner /\ WF_vars(RunnerNext)

-----------------------------------------------------------------------------
\* Specification of one run of processEmails: every list of fetched emails up
\* to MaxEmails, every combination of the policy flags, with and without a
\* configured handle, every answer of the remote and every completion order.

RepoA == <<"o", "/", "a">>
RepoB == <<"o", "/", "b">>

\* what a mailbox adapter can return for one message (the id is added below)
EmailKinds ==
  { [repo |-> Some(RepoA), prNumber |-> Some(12), subject |-> \* Fix bug
       <<"F", "i", "x", " ", "b", "u", "g">>,
     receivedDateTime |-> 9],
    [repo |-> Some(RepoB), prNumber |-> Some(1), subject |-> \* Run failed
       <<"R", "u", "n", " ", "f", "a", "i", "l", "e", "d">>,
     receivedDateTime |-> 0],
    [repo |-> None, prNumber |-> None, subject |-> \* Workflow run succeeded
       <<"W", "o", "r", "k", "f", "l", "o", "w", " ", "r", "u", "n", " ", "s", "u", "c", "c", "e", "e", "d", "e", "d">>,
     receivedDateTime |-> 0],
    [repo |-> None, prNumber |-> None, subject |-> \* RUN failed
       <<"R", "U", "N", " ", "f", "a", "i", "l", "e", "d">>,
     receivedDateTime |-> 7],
    [repo |-> Some(RepoA), prNumber |-> Some(0), subject |-> \* Dry run failure notes
       <<"D", "r", "y", " ", "r", "u", "n", " ", "f", "a", "i", "l", "u", "r", "e", " ", "n", "o", "t", "e", "s">>,
     receivedDateTime |-> 0] }

\* message ids are distinct: the position in the mailbox listing
WithIds(kinds) ==
  [k \in 1..Len(kinds) |->
     [id |-> k, repo |-> kinds[k].repo, prNumber |-> kinds[k].prNumber,
      subject |-> kinds[k].subject, receivedDateTime |-> kinds[k].receivedDateTime]]

EmailLists == {WithIds(kinds) : kinds \in SeqsUpTo(EmailKinds, MaxEmails)}

\* the value of --ci-days on the command line: absent, or a number of days
CiDaysArgs == {None, Some(<<"3">>)}

\* part_004:341-343  parsed["ci-days"] ? parseInt(parsed["ci-days"], 10) : undefined
\* (the arguments of the model are absent or numeric, so NaN does not arise)
ParseCiDays(arg) == IF arg # None /\ arg[1] # <<>> THEN ParseInt(arg[1]) ELSE None

OptionSets ==
  [skipMentions : BOOLEAN, skipReviewRequests : BOOLEAN,
   ciDays : {ParseCiDays(arg) : arg \in CiDaysArgs},
   confirm : BOOLEAN, backend : {"graph"}]

RunnerIdle ==
  /\ caller = "batch"
  /\ items = <<>>
  /\ concurrency = BatchConcurrency
  /\ rpc = "idle"
  /\ index = 1
  /\ executing = {}
  /\ promise = [i \in {} |-> "pending"]
  /\ results = [i \in {} |-> <<>>]
  /\ agg = NoAgg
  /\ mq = <<>>
  /\ fnst = [i \in {} |-> "pending"]
  /\ unhandled = FALSE
  /\ exited = FALSE

Init ==
  /\ RunnerIdle
  /\ ModuleLoaded
  /\ envHandle = Login
  /\ callsLeft = 0
  /\ emails \in EmailLists
  /\ options \in OptionSets
  /\ now = 10
  /\ ppc = "init"
  /\ prToDelete = <<>>
  /\ ciToDelete = <<>>
  /\ allToDelete = <<>>
  /\ moved = <<>>
  /\ MoveIdle
  /\ PendingIdle

\* the steps of a batch whose user handle is configured or memoized, except
\* the answers of `gh pr view`
ResolveSteps ==
  \/ BatchLaunch
  \/ LoopEnd
  \/ JobCheckPr
  \/ JobClosure
  \/ JobIife
  \/ JobFinally
  \/ JobAgg
  \/ RunnerResume
  \/ JobBatch

\* the steps taken only when `gh api user` has to be asked
IdentitySteps ==
  \/ \E i \in 1..MaxRefs, ok \in BOOLEAN : IdentityDone(i, ok)
  \/ UncaughtExit

\* GITHUB_HANDLE is configured (the documented setup)
Next ==
  \/ ProcessStart
  \/ ResolveSteps
  \/ \E i \in 1..MaxEmails, resp \in PrViewResponses : PrViewDone(i, resp)
  \/ JobProcess
  \/ \E outcome \in RequestOutcomes : SendDone(outcome)

Spec == Init /\ [][Next]_vars

-----------------------------------------------------------------------------
\* Specification of batchCheckPrs called on its own, up to MaxCalls times one
\* after the other in one process, with and without a configured handle.

Refs ==
  { [repo |-> RepoA, prNumber |-> Some(12)],
    [repo |-> RepoA, prNumber |-> Some(1)],
    [repo |-> RepoB, prNumber |-> Some(1)] }

\* the driver calls batchCheckPrs(prsList) when no call is running
BatchCall(prsList) ==
  /\ ppc = "idle"
  /\ bpc \in {"idle", "returned"}
  /\ callsLeft > 0
  /\ CanHandleEvent
  /\ callsLeft' = callsLeft - 1
  /\ BatchEnter(prsList)
  /\ UNCHANGED <<procVars, pendVars>>

BatchInit ==
  /\ RunnerIdle
  /\ ModuleLoaded
  /\ envHandle \in {"", Login}
  /\ callsLeft = MaxCalls
  /\ emails = <<>>
  /\ options = NoOptions
  /\ now = 0
  /\ ProcessIdle

\* the answers of `gh pr view` in this specification: both kinds of failure,
\* a merged pull request and an open one that involves the user
BatchResponses ==
  { [code |-> 1, stderr |-> <<>>],
    [code |-> 1, stderr |-> <<"GraphQL:", " ", CouldNotResolve, "\n">>],
    [code |-> 0, state |-> "MERGED", reviewRequests |-> <<>>, body |-> <<>>],
    [code |-> 0, state |-> "OPEN", reviewRequests |-> <<[login |-> "Alice"]>>,
     body |-> <<[at |-> "ALICE", wordAfter |-> FALSE]>>] }

BatchNext ==
  \/ \E prsList \in SeqsUpTo(Refs, MaxRefs) : BatchCall(prsList)
  \/ ResolveSteps
  \/ \E i \in 1..MaxRefs, resp \in BatchResponses : PrViewDone(i, resp)
  \/ IdentitySteps

SpecBatch == BatchInit /\ [][BatchNext]_vars

-----------------------------------------------------------------------------
\* Specification of the hand-over to the deletion executor: one run of
\* processEmails on each of the three backends, with and without --confirm,
\* with every outcome of every move request.

Mailboxes == {"github", "github/ci"}

\* the fields each adapter adds to the common ones (types.ts), boxes[k] being
\* the mailbox the k-th message was found in
AdapterEmails(backend, list, boxes) ==
  [k \in 1..Len(list) |->
     CASE backend = "mail-app" ->
            [id |-> list[k].id, repo |-> list[k].repo, prNumber |-> list[k].prNumber,
             subject |-> list[k].subject,
             receivedDateTime |-> list[k].receivedDateTime,
             account |-> "Work", mailbox |-> boxes[k]]
       [] backend = "ews" ->
            [id |-> list[k].id, repo |-> list[k].repo, prNumber |-> list[k].prNumber,
             subject |-> list[k].subject,
             receivedDateTime |-> list[k].receivedDateTime,
             changeKey |-> <<"ck", list[k].id>>]
       [] OTHER -> list[k]]

\* a message about a pull request and an old CI message
DeleteEmailKinds ==
  {kind \in EmailKinds :
     \/ kind.prNumber = Some(12)
     \/ (kind.repo = None /\ kind.receivedDateTime = 0)}

DeleteOptionSets ==
  [skipMentions : {FALSE}, skipReviewRequests : {FALSE},
   ciDays : {ParseCiDays(arg) : arg \in CiDaysArgs},
   confirm : BOOLEAN, backend : {"graph", "ews", "mail-app"}]

DeleteInit ==
  /\ RunnerIdle
  /\ ModuleLoaded
  /\ envHandle = Login
  /\ callsLeft = 0
  /\ options \in DeleteOptionSets
  /\ \E kinds \in SeqsUpTo(DeleteEmailKinds, MaxEmails), boxes \in [1..MaxEmails -> Mailboxes] :
        emails = AdapterEmails(options.backend, WithIds(kinds), boxes)
  /\ now = 10
  /\ ppc = "init"
  /\ prToDelete = <<>>
  /\ ciToDelete = <<>>
  /\ allToDelete = <<>>
  /\ moved = <<>>
  /\ MoveIdle
  /\ PendingIdle

DeleteNext ==
  \/ ProcessStart
  \/ ResolveSteps
  \/ \E i \in 1..MaxEmails, resp \in BatchResponses : PrViewDone(i, resp)
  \/ JobProcess
  \/ \E outcome \in RequestOutcomes : SendDone(outcome)
  \/ \E outcome \in ScriptOutcomes(MaxEmails) : ScriptDone(outcome)

SpecDelete == DeleteInit /\ [][DeleteNext]_vars

-----------------------------------------------------------------------------
\* Specification of one run of processEmails with no GITHUB_HANDLE configured:
\* every checkPr that finds no memoized user asks `gh api user`, which can fail.

\* the messages about two pull requests and an old CI message
IdentityEmailKinds ==
  {kind \in EmailKinds :
     \/ kind.prNumber \in {Some(12), Some(1)}
     \/ (kind.repo = None /\ kind.receivedDateTime = 0)}

IdentityOptionSets ==
  [skipMentions : {FALSE}, skipReviewRequests : {FALSE},
   ciDays : {ParseCiDays(arg) : arg \in CiDaysArgs},
   confirm : {TRUE}, backend : {"graph"}]

IdentityInit ==
  /\ RunnerIdle
  /\ ModuleLoaded
  /\ envHandle = ""
  /\ callsLeft = 0
  /\ options \in IdentityOptionSets
  /\ emails \in {WithIds(kinds) : kinds \in SeqsUpTo(IdentityEmailKinds, MaxEmails)}
  /\ now = 10
  /\ ppc = "init"
  /\ prToDelete = <<>>
  /\ ciToDelete = <<>>
  /\ allToDelete = <<>>
  /\ moved = <<>>
  /\ MoveIdle
  /\ PendingIdle

IdentityNext ==
  \/ ProcessStart
  \/ ResolveSteps
  \/ \E i \in 1..MaxEmails, resp \in BatchResponses : PrViewDone(i, resp)
  \/ \E i \in 1..MaxEmails, ok \in BOOLEAN : IdentityDone(i, ok)
  \/ UncaughtExit
  \/ JobProcess
  \/ \E outcome \in RequestOutcomes : SendDone(outcome)

SpecIdentity == IdentityInit /\ [][IdentityNext]_vars

-----------------------------------------------------------------------------
\* Specification of one process that runs listPendingReviews or else one
\* batchCheckPrs, with and without a configured handle: every search result of
\* up to MaxFound pull requests, the bot filter on and off, every answer and
\* every completion order of the detail queries.

\* what `gh search prs` can list: the authors are a person, the two bots
\* (one spelled in capitals) and a person whose login is close to a bot's
SearchKinds ==
  { [repository |-> [nameWithOwner |-> RepoA], number |-> 12,
     author |-> [login |-> <<"a", "l", "i", "c", "e">>]],
    [repository |-> [nameWithOwner |-> RepoB], number |-> 1,
     author |-> [login |-> <<"d", "e", "p", "e", "n", "d", "a", "b", "o", "t", "[", "b", "o", "t", "]">>]],
    [repository |-> [nameWithOwner |-> RepoA], number |-> 1,
     author |-> [login |-> <<"E", "S", "-", "R", "o", "b", "o", "t", "-", "c", "i">>]],
    [repository |-> [nameWithOwner |-> RepoB], number |-> 7,
     author |-> [login |-> <<"e", "s", "r", "o", "b", "o", "t">>]] }

\* a search lists a pull request once
FoundLists ==
  {list \in SeqsUpTo(SearchKinds, MaxFound) :
     \A a, b \in 1..Len(list) : a # b => list[a] # list[b]}

SearchResponses ==
  {[code |-> 1]} \cup {[code |-> 0, results |-> list] : list \in FoundLists}

ReviewOf(state) == [author |-> [login |-> "Bob"], state |-> state]

\* the answers of the detail `gh pr view` in this specification: a failure
\* and one answer for each value approvalsNeeded can take
DetailResponses ==
  { [code |-> 1],
    [code |-> 0, reviewDecision |-> "APPROVED", reviews |-> <<>>],
    [code |-> 0, reviewDecision |-> "CHANGES_REQUESTED",
     reviews |-> <<ReviewOf("APPROVED"), ReviewOf("CHANGES_REQUESTED")>>],
    [code |-> 0, reviewDecision |-> "REVIEW_REQUIRED",
     reviews |-> <<ReviewOf("COMMENTED"), ReviewOf("APPROVED")>>],
    [code |-> 0, reviewDecision |-> "REVIEW_REQUIRED", reviews |-> <<>>] }

\* the driver (part_004:329-354) runs the reconciliation only when it does
\* not run listPendingReviews
ResolveCall(prsList) ==
  /\ lpc = "idle"
  /\ BatchCall(prsList)

PendingInit ==
  /\ RunnerIdle
  /\ ModuleLoaded
  /\ envHandle \in {"", Login}
  /\ callsLeft = 1
  /\ emails = <<>>
  /\ options = NoOptions
  /\ now = 0
  /\ ProcessIdle

\* the steps of listPendingReviews other than the answers of its detail queries
PendingSteps ==
  \/ \E exclude \in BOOLEAN : PendingCall(exclude)
  \/ \E ok \in BOOLEAN : PendingIdentityDone(ok)
  \/ \E resp \in SearchResponses : SearchDone(resp)
  \/ PendingLaunch
  \/ JobPending

PendingNext ==
  \/ PendingSteps
  \/ \E i \in 1..MaxFound, detail \in DetailResponses : DetailDone(i, detail)
  \/ \E prsList \in SeqsUpTo(Refs, MaxRefs) : ResolveCall(prsList)
  \/ ResolveSteps
  \/ \E i \in 1..MaxRefs, resp \in BatchResponses : PrViewDone(i, resp)
  \/ IdentitySteps

SpecPending == PendingInit /\ [][PendingNext]_vars

\* every answer the detail query can give for one pull request with up to
\* MaxReviews reviews
AllDetailResponses ==
  {[code |-> 1]} \cup
  {[code |-> 0, reviewDecision |-> d, reviews |-> r] :
     d \in {"APPROVED", "CHANGES_REQUESTED", "REVIEW_REQUIRED", ""},
     r \in {[k \in 1..Len(states) |-> ReviewOf(states[k])] :
              states \in SeqsUpTo({"APPROVED", "COMMENTED", "CHANGES_REQUESTED"},
                                   MaxReviews)}}

ApprovalsInit ==
  /\ PendingInit
  /\ envHandle = Login

\* listPendingReviews alone on a search that lists one pull request, with
\* every answer of the detail query
ApprovalsNext ==
  \/ \E exclude \in BOOLEAN : PendingCall(exclude)
  \/ \E pr \in SearchKinds : SearchDone([code |-> 0, results |-> <<pr>>])
  \/ PendingLaunch
  \/ \E detail \in AllDetailResponses : DetailDone(1, detail)
  \/ JobPending
  \/ LoopEnd
  \/ JobIife
  \/ JobFinally
  \/ JobAgg
  \/ RunnerResume

SpecApprovals == ApprovalsInit /\ [][ApprovalsNext]_vars

-----------------------------------------------------------------------------
\* Specification of batchMoveToTrash called on its own: every backend, every
\* list length up to MaxMoveIds (several batches), every outcome per request.

\* the lists a backend's batchMoveToTrash is called with; message ids are
\* distinct
MoveLists(backend) ==
  CASE backend = "mail-app" ->
         {[k \in 1..Len(boxes) |-> [account |-> "Work", mailbox |-> boxes[k], id |-> k]] :
            boxes \in SeqsUpTo(Mailboxes, MaxMailItems)}
    [] backend = "ews" ->
         {[k \in 1..n |-> [id |-> k, changeKey |-> <<"ck", k>>]] : n \in 0..MaxMoveIds}
    [] OTHER -> {[k \in 1..n |-> k] : n \in 0..MaxMoveIds}

\* the driver calls batchMoveToTrash(list) of a backend
MoveCall(backend, list) ==
  /\ ppc = "idle"
  /\ mpc = "idle"
  /\ CanHandleEvent
  /\ MoveEnter(backend, list)
  /\ moved' = Append(moved, [backend |-> backend, list |-> list])
  /\ UNCHANGED <<emails, options, now, ppc, prToDelete, ciToDelete, allToDelete>>
  /\ UNCHANGED <<runnerVars, batchVars, pendVars>>

MoveInit ==
  /\ RunnerIdle
  /\ ModuleLoaded
  /\ envHandle = ""
  /\ callsLeft = 0
  /\ emails = <<>>
  /\ options = NoOptions
  /\ now = 0
  /\ ProcessIdle

MoveNext ==
  \/ \E backend \in {"graph", "ews", "mail-app"} :
        \E list \in MoveLists(backend) : MoveCall(backend, list)
  \/ \E outcome \in RequestOutcomes : SendDone(outcome)
  \/ \E outcome \in ScriptOutcomes(MaxMailItems) : ScriptDone(outcome)

SpecMove == MoveInit /\ [][MoveNext]_vars

-----------------------------------------------------------------------------
\* Specification of one batchCheckPrs call on up to MaxProgressRefs distinct
\* references (more than the concurrency limit of 10) or on a list of up to
\* MaxListed references that may repeat, with the handle configured and every
\* query answered: every completion order.

\* a repository whose owner and name have a hyphen, a dot and digits
RepoC == <<"o", "-", "1", "/", "a", ".", "2">>

\* n distinct references: the pull requests 1..n of one repository
ProgressRefs(n) == [k \in 1..n |-> [repo |-> RepoC, prNumber |-> Some(k)]]

\* the answers of `gh pr view` in this specification
ProgressResponses ==
  { [code |-> 0, state |-> "MERGED", reviewRequests |-> <<>>, body |-> <<>>] }

ProgressInit ==
  /\ RunnerIdle
  /\ ModuleLoaded
  /\ envHandle = Login
  /\ callsLeft = 1
  /\ emails = <<>>
  /\ options = NoOptions
  /\ now = 0
  /\ ProcessIdle

ProgressNext ==
  \/ \E n \in 0..MaxProgressRefs : BatchCall(ProgressRefs(n))
  \/ \E prsList \in SeqsUpTo(Refs, MaxListed) : BatchCall(prsList)
  \/ ResolveSteps
  \/ \E i \in 1..MaxProgressRefs, resp \in ProgressResponses : PrViewDone(i, resp)

SpecProgress == ProgressInit /\ [][ProgressNext]_vars

\* C1: for every list of N inputs and every limit C >= 1, never more than C
\* per-item operations are started and not yet completed, whatever the order
\* in which operations complete
C1_AtMostCInFlight ==
  caller = "generic" => Cardinality(InFlight) <= concurrency

\* C1 witness: the limit is reached with inputs still waiting to be launched
C1_Witness ==
  /\ caller = "generic"
  /\ Cardinality(InFlight) = concurrency
  /\ index <= Len(items)
  /\ rpc = "race"

\* C2: when the runner returns, output[i] is the result of the operation on
\* input[i] for every i, and the output is as long as the input
C2_IndexStable ==
  (caller = "generic" /\ rpc = "returned") =>
     /\ DOMAIN results = 1..Len(items)
     /\ \A i \in 1..Len(items) : results[i] = Fn(items[i])

\* C3: one batchCheckPrs call makes one remote lookup per distinct key
\* "{repo}#{number}" that is not cached yet, whatever duplicates its input
\* has: no key is looked up twice in a run, and when a call returns every
\* key of its input has been looked up once and the lookups made are exactly
\* the keys cached
C3_OneLookupPerKey ==
  /\ \A k \in DOMAIN lookups : lookups[k] <= 1
  /\ bpc = "returned" =>
       /\ \A j \in 1..Len(prs) :
             PrKey(prs[j]) \in DOMAIN lookups /\ lookups[PrKey(prs[j])] = 1
       /\ DOMAIN lookups = DOMAIN cache

\* C3 witness: a later call has returned whose input names one key twice
C3_Witness ==
  /\ bpc = "returned"
  /\ callsLeft < MaxCalls - 1
  /\ Len(prs) = 2
  /\ PrKey(prs[1]) = PrKey(prs[2])
  /\ lookups[PrKey(prs[1])] = 1

\* the status processEmails looked up for a PR email
StatusOf(e) == batchResults[EmailKey(e)]

HasStatus(e) == IsPrEmail(e) /\ EmailKey(e) \in DOMAIN batchResults

\* the email is a candidate of the PR pass / is in the deletion list
PrSelected(e) == \E k \in 1..Len(prToDelete) : prToDelete[k].email = e
Selected(e) == \E k \in 1..Len(allToDelete) : allToDelete[k] = e

\* processEmails has made its decision
Decided == ppc \in {"moving", "done"}

FetchedEmails == {emails[k] : k \in 1..Len(emails)}

\* C4: a reference whose `gh pr view` failed, whatever the text of its error
\* message, is kept: no email that references it is selected for deletion
C4_FailedQueryKept ==
  \A e \in FetchedEmails :
     (IsPrEmail(e) /\ EmailKey(e) \in failedKeys) => ~Selected(e)

\* C5: a PR email whose status is OPEN is never selected for deletion,
\* whatever wasMentioned, wasRequestedReviewer and the two skip flags are
C5_OpenNeverSelected ==
  \A e \in FetchedEmails :
     (HasStatus(e) /\ StatusOf(e).state = "OPEN") => (~PrSelected(e) /\ ~Selected(e))

\* C5 witness: the decision is made with both overrides set for an OPEN pull
\* request that mentions the user and requests their review
C5_Witness ==
  /\ Decided
  /\ options.skipMentions /\ options.skipReviewRequests
  /\ \E e \in FetchedEmails :
        /\ HasStatus(e)
        /\ StatusOf(e).state = "OPEN"
        /\ StatusOf(e).wasMentioned /\ StatusOf(e).wasRequestedReviewer
        /\ ~Selected(e)

\* C6: a PR email whose status has its error set is always kept, whatever
\* the other fields and the skip flags are
C6_ErrorAlwaysKept ==
  \A e \in FetchedEmails :
     (HasStatus(e) /\ "error" \in DOMAIN StatusOf(e)) => ~Selected(e)

\* C7: a mentioned pull request is kept unless skip-mentions is set; with
\* skip-mentions set a MERGED, mentioned, not review-requested, error-free
\* email is selected
C7_MentionProtects ==
  Decided =>
    \A e \in FetchedEmails : HasStatus(e) =>
       /\ (StatusOf(e).wasMentioned /\ ~options.skipMentions) => ~Selected(e)
       /\ (/\ options.skipMentions
           /\ StatusOf(e).state = "MERGED"
           /\ StatusOf(e).wasMentioned
           /\ ~StatusOf(e).wasRequestedReviewer
           /\ "error" \notin DOMAIN StatusOf(e)) => Selected(e)

\* C7 witness: skip-mentions is set and a MERGED, mentioned email is selected
C7_Witness ==
  /\ Decided
  /\ options.skipMentions
  /\ \E e \in FetchedEmails :
        /\ HasStatus(e)
        /\ StatusOf(e).state = "MERGED" /\ StatusOf(e).wasMentioned
        /\ Selected(e)

\* C8: a pull request that requests the user's review is kept unless
\* skip-review-requests is set, whatever skip-mentions is; with the override
\* set and nothing else protecting it (not OPEN, no error, no protective
\* mention) it is selected
C8_ReviewRequestProtects ==
  Decided =>
    \A e \in FetchedEmails : HasStatus(e) =>
       /\ (StatusOf(e).wasRequestedReviewer /\ ~options.skipReviewRequests)
            => ~Selected(e)
       /\ (/\ options.skipReviewRequests
           /\ StatusOf(e).wasRequestedReviewer
           /\ StatusOf(e).state # "OPEN"
           /\ "error" \notin DOMAIN StatusOf(e)
           /\ (~StatusOf(e).wasMentioned \/ options.skipMentions)) => Selected(e)

\* C8 witness: skip-review-requests is set, skip-mentions is not, and a
\* closed pull request that requests the user's review is selected
C8_Witness ==
  /\ Decided
  /\ options.skipReviewRequests /\ ~options.skipMentions
  /\ \E e \in FetchedEmails :
        /\ HasStatus(e)
        /\ StatusOf(e).state = "CLOSED" /\ StatusOf(e).wasRequestedReviewer
        /\ Selected(e)

\* C9: a PR email is a candidate of the PR pass if and only if its key has a
\* status, the status has no error, its state is CLOSED or MERGED, it is not
\* protected by a mention and not protected by a review request
C9_ExactSelection ==
  Decided =>
    \A e \in FetchedEmails : IsPrEmail(e) =>
       (PrSelected(e) <=>
          /\ HasStatus(e)
          /\ "error" \notin DOMAIN StatusOf(e)
          /\ StatusOf(e).state \in {"CLOSED", "MERGED"}
          /\ (~StatusOf(e).wasMentioned \/ options.skipMentions)
          /\ (~StatusOf(e).wasRequestedReviewer \/ options.skipReviewRequests))

\* the reason recorded for a candidate of the PR pass
ReasonOf(e) == (CHOOSE c \in {prToDelete[k] : k \in 1..Len(prToDelete)} : c.email = e).reason

\* a CLOSED status without error, mention or review request, under the
\* default policy flags
PlainClosed(e) ==
  /\ HasStatus(e)
  /\ "error" \notin DOMAIN StatusOf(e)
  /\ StatusOf(e).state = "CLOSED"
  /\ ~StatusOf(e).wasMentioned
  /\ ~StatusOf(e).wasRequestedReviewer
  /\ ~options.skipMentions /\ ~options.skipReviewRequests

\* C10 as stated: the reason is "closed pr, not specifically mentioned"
C10_Original ==
  Decided =>
    \A e \in FetchedEmails : PlainClosed(e) =>
       (PrSelected(e) /\ ReasonOf(e) = "closed pr, not specifically mentioned")

\* C10 amended: a CLOSED status without error, with wasMentioned = false and
\* wasRequestedReviewer = false, under the default flags, is selected with the
\* reason "closed PR, not specifically mentioned"
C10_ClosedReason ==
  Decided =>
    \A e \in FetchedEmails : PlainClosed(e) =>
       (PrSelected(e) /\ Selected(e)
        /\ ReasonOf(e) = "closed PR, not specifically mentioned")

\* C10 witness: such an email has been selected
C10_Witness ==
  /\ Decided
  /\ \E e \in FetchedEmails : PlainClosed(e) /\ PrSelected(e)

\* C11: every candidate of the PR pass carries the reason
\* "<lowercased state> PR, not specifically mentioned" for the state of its
\* reconciled status, so only the closed and the merged text occur
C11_ReasonFromState ==
  \A k \in 1..Len(prToDelete) :
     LET c == prToDelete[k]
     IN /\ HasStatus(c.email)
        /\ c.prResult = StatusOf(c.email)
        /\ c.reason = (CASE StatusOf(c.email).state = "CLOSED"
                              -> "closed PR, not specifically mentioned"
                         [] StatusOf(c.email).state = "MERGED"
                              -> "merged PR, not specifically mentioned"
                         [] OTHER -> "no candidate has this state")

\* C11 witness: one run selected a closed and a merged pull request
C11_Witness ==
  /\ Decided
  /\ \E j, k \in 1..Len(prToDelete) :
        /\ prToDelete[j].reason = "closed PR, not specifically mentioned"
        /\ prToDelete[k].reason = "merged PR, not specifically mentioned"

\* the id of an item handed to a backend's batchMoveToTrash
ItemId(backend, item) == IF backend = "graph" THEN item ELSE item.id

\* the ids of a call's argument and of the computed candidates, in order
HandedIds(call) == [k \in 1..Len(call.list) |-> ItemId(call.backend, call.list[k])]
CandidateIds == [k \in 1..Len(allToDelete) |-> allToDelete[k].id]

\* processEmails is past its decision (it may have failed in the move)
HandOverDue == ppc \in {"moving", "done"} \/ (ppc = "failed" /\ mpc = "threw")

\* C12: the deletion executor is called only on an explicit confirmation: in
\* a dry run no move-to-trash call and no request is made whatever the
\* candidates are; with --confirm it is called exactly once, on the selected
\* backend, with exactly the computed candidates, and not at all when there
\* are none
C12_ConfirmedHandOver ==
  /\ Len(moved) <= 1
  /\ ~options.confirm => (moved = <<>> /\ sent = <<>> /\ mpc = "idle")
  /\ ~HandOverDue => moved = <<>>
  /\ HandOverDue =>
       IF options.confirm /\ allToDelete # <<>>
       THEN /\ Len(moved) = 1
            /\ moved[1].backend = options.backend
            /\ mvBackend = options.backend
            /\ HandedIds(moved[1]) = CandidateIds
       ELSE moved = <<>> /\ mpc = "idle"

\* C12 witness: a confirmed run on the EWS backend has handed over two
\* candidates and its move has returned
C12_Witness ==
  /\ options.confirm
  /\ options.backend = "ews"
  /\ ppc = "done"
  /\ Len(allToDelete) = 2
  /\ Len(moved) = 1
  /\ mpc = "returned"

\* the email is a candidate of the CI pass
CiSelected(e) == \E k \in 1..Len(ciToDelete) : ciToDelete[k].email = e

\* the reason recorded for a candidate of the CI pass
CiReasonOf(e) ==
  (CHOOSE c \in {ciToDelete[k] : k \in 1..Len(ciToDelete)} : c.email = e).reason

\* the subjects among the fetched ones that contain "run failed",
\* "run succeeded", "run cancelled", "run skipped" or "workflow run" in any
\* letter case
SubjectsOfCiEmails ==
  { \* Workflow run succeeded
    <<"W", "o", "r", "k", "f", "l", "o", "w", " ", "r", "u", "n", " ", "s", "u", "c", "c", "e", "e", "d", "e", "d">>,
    \* RUN failed
    <<"R", "U", "N", " ", "f", "a", "i", "l", "e", "d">>,
    \* Run failed
    <<"R", "u", "n", " ", "f", "a", "i", "l", "e", "d">> }

\* C13: with a threshold of N days, a non-PR email is a candidate of the CI
\* pass if and only if its subject matches one of the five patterns, letter
\* case ignored, and it was received strictly before now minus N days (at the
\* cutoff it is kept); its reason is "CI email older than N days"
C13_CiSelection ==
  (Decided /\ options.ciDays = Some(3)) =>
     \A e \in FetchedEmails : IsNonPrEmail(e) =>
        /\ CiSelected(e) <=> (/\ e.subject \in SubjectsOfCiEmails
                              /\ e.receivedDateTime < now - 3)
        /\ CiSelected(e) => (CiReasonOf(e) = "CI email older than 3 days" /\ Selected(e))

\* C13 witness: with N = 3, "Workflow run succeeded" received 10 days ago is
\* selected while the CI email received exactly 3 days ago is kept
C13_Witness ==
  /\ Decided
  /\ options.ciDays = Some(3)
  /\ \E e, f \in FetchedEmails :
        /\ IsNonPrEmail(e) /\ e.receivedDateTime = now - 10 /\ CiSelected(e)
        /\ e.subject \in SubjectsOfCiEmails
        /\ IsNonPrEmail(f) /\ f.receivedDateTime = now - 3 /\ ~CiSelected(f)
        /\ f.subject \in SubjectsOfCiEmails

\* C14: with no threshold configured the CI pass does not run: no non-PR
\* email is selected whatever its subject and age, and the deletion list is
\* made of the PR candidates alone
C14_NoThresholdNoCiPass ==
  options.ciDays = None =>
     /\ ciToDelete = <<>>
     /\ \A e \in FetchedEmails : IsNonPrEmail(e) => (~Selected(e) /\ ~CiSelected(e))
     /\ Decided => allToDelete = [k \in 1..Len(prToDelete) |-> prToDelete[k].email]

\* C14 witness: no threshold, a PR candidate was selected and an old CI email
\* was fetched and kept
C14_Witness ==
  /\ Decided
  /\ options.ciDays = None
  /\ Len(prToDelete) = 1
  /\ allToDelete # <<>>
  /\ \E e \in FetchedEmails :
        /\ IsNonPrEmail(e)
        /\ e.subject \in SubjectsOfCiEmails
        /\ e.receivedDateTime = now - 10
        /\ ~Selected(e)

\* the emails the CI pass has to select, told from the fetched emails, the
\* threshold and the clock alone
CiDue ==
  {e \in FetchedEmails :
     /\ IsNonPrEmail(e)
     /\ options.ciDays # None
     /\ e.subject \in SubjectsOfCiEmails
     /\ e.receivedDateTime < now - options.ciDays[1]}

C16_PrThenCi ==
  Decided =>
     /\ Len(allToDelete) = Len(prToDelete) + Len(ciToDelete)
     /\ \A k \in 1..Len(prToDelete) : allToDelete[k] = prToDelete[k].email
     /\ \A k \in 1..Len(ciToDelete) :
           allToDelete[Len(prToDelete) + k] = ciToDelete[k].email
     /\ \A j, k \in 1..Len(prToDelete) :
           j < k => prToDelete[j].email.id < prToDelete[k].email.id
     /\ \A j, k \in 1..Len(ciToDelete) :
           j < k => ciToDelete[j].email.id < ciToDelete[k].email.id
     /\ {allToDelete[k] : k \in 1..Len(allToDelete)} =
          {e \in FetchedEmails : PrSelected(e) \/ CiSelected(e)}

\* C16 witness: a CI candidate fetched before a PR candidate comes after it
\* in the deletion list
C16_Witness ==
  /\ Decided
  /\ Len(prToDelete) = 1 /\ Len(ciToDelete) = 1
  /\ ciToDelete[1].email.id < prToDelete[1].email.id
  /\ allToDelete = <<prToDelete[1].email, ciToDelete[1].email>>

\* the candidates whose move request reached the backend
Attempted == UNION {{sent[b][k] : k \in 1..Len(sent[b])} : b \in 1..Len(sent)}

\* the candidates the running or finished batchMoveToTrash was called with
ToMove == {moved[Len(moved)].list[k] : k \in 1..Len(moved[Len(moved)].list)}

\* C17: a failed move of one email or one batch does not abort the others:
\* on every backend, once batchMoveToTrash has ended every candidate has
\* been attempted, the call has not raised, and the moves that failed are
\* the ones counted as failed
C17_FailureDoesNotAbort ==
  mpc \in {"returned", "threw"} =>
     /\ Attempted = ToMove
     /\ mpc = "returned"
     /\ mvResult.failed = actualFailed

\* the distinct keys of the input of the current batchCheckPrs call
InputKeys == {PrKey(prs[j]) : j \in 1..Len(prs)}

\* C18: a failed remote query for one reference never aborts the batch: the
\* call fails only through an operation that never got to its query, and a
\* call that returns gives a map whose keys are exactly the distinct input
\* keys, a failed reference mapped to an error-carrying status with the safe
\* defaults and every other reference to its own resolved status
C18_QueryFailureKeepsBatch ==
  /\ envHandle # "" => (bpc # "threw" /\ \A i \in DOMAIN promise : promise[i] # "rejected")
  /\ \A i \in DOMAIN promise : promise[i] = "rejected" => i \notin DOMAIN opUser
  /\ bpc = "threw" => \E i \in DOMAIN promise : promise[i] = "rejected"
  /\ bpc = "returned" =>
       /\ DOMAIN batchResults = InputKeys
       /\ \A k \in InputKeys :
            /\ k \in DOMAIN cache /\ batchResults[k] = cache[k]
            /\ CacheKey(batchResults[k].repo, batchResults[k].prNumber) = k
            /\ IF k \in failedKeys
               THEN /\ "error" \in DOMAIN batchResults[k]
                    /\ batchResults[k].state = "CLOSED"
                    /\ ~batchResults[k].isMerged
                    /\ ~batchResults[k].wasMentioned
                    /\ ~batchResults[k].wasRequestedReviewer
               ELSE "error" \notin DOMAIN batchResults[k]

\* C18 witness: a call on two distinct references has returned, the query of
\* one failed and the other resolved as MERGED
C18_Witness ==
  /\ bpc = "returned"
  /\ Cardinality(InputKeys) = 2
  /\ \E k, h \in InputKeys :
        /\ k \in failedKeys
        /\ h \notin failedKeys
        /\ batchResults[h].state = "MERGED"

\* C19: if any per-item operation given to runWithConcurrency raises an
\* error, the call never returns successfully: a returned call has no
\* rejected operation and no output slot left unfilled
C19_NoPartialResult ==
  (caller = "generic" /\ rpc = "returned") =>
     /\ \A i \in DOMAIN promise : promise[i] # "rejected"
     /\ \A i \in 1..Len(items) : i \in DOMAIN results

\* C20: within one run with no GITHUB_HANDLE configured, `gh api user` is
\* spawned at most once, however many checkPr operations batchCheckPrs has in
\* flight
C20_IdentityQueriedOnce ==
  envHandle = "" => identityQueries <= 1

\* C21: with no handle configured, a failed identity query is fatal for the
\* run: the failure is not turned into a status, nothing is cached for the
\* reference whose resolution hit it, batchCheckPrs never returns and, once
\* the failure has run its course, has failed together with processEmails;
\* no email is handed to a backend's batchMoveToTrash
C21_IdentityFailureIsFatal ==
  identityFailedKeys # {} =>
     /\ \A k \in identityFailedKeys : k \notin DOMAIN cache
     /\ bpc # "returned"
     /\ ppc \notin {"moving", "done"}
     /\ moved = <<>> /\ sent = <<>>
     /\ mq = <<>> => (bpc = "threw" /\ ppc = "failed")

\* C21 witness: the identity query of one reference failed after the other
\* reference had been resolved and cached; the run has failed
C21_Witness ==
  /\ identityFailedKeys # {}
  /\ DOMAIN cache # {}
  /\ Len(emails) = 2
  /\ bpc = "threw"
  /\ ppc = "failed"

\* C22: when GITHUB_HANDLE is configured it is the user of every resolution
\* and of the pending-review search, and `gh api user` is never spawned
C22_ConfiguredHandleUsed ==
  envHandle # "" =>
     /\ identityQueries = 0
     /\ lpc # "user"
     /\ \A i \in DOMAIN opUser : opUser[i] = envHandle
     /\ \A i \in DOMAIN fnst : fnst[i] # "userIO"
     /\ lpc \in {"search", "details", "returned"} => searchUser = envHandle
     /\ cachedUser \in {"", envHandle}

\* C22 witness: with the handle configured, a pending-review report of two
\* pull requests has been printed for it
C22_Witness ==
  /\ envHandle # ""
  /\ lpc = "returned"
  /\ searchUser = envHandle
  /\ report.total = 2

\* no step replaces a cached status or looks a cached key up again, and a
\* call that returns gives for every key of its input the status in the cache
CachedStatusKept ==
  /\ \A k \in DOMAIN cache :
        /\ k \in DOMAIN cache' /\ cache'[k] = cache[k]
        /\ k \in DOMAIN lookups /\ lookups'[k] = lookups[k]
  /\ (bpc # "returned" /\ bpc' = "returned") =>
        \A j \in 1..Len(prs') :
           /\ PrKey(prs'[j]) \in DOMAIN cache'
           /\ batchResults'[PrKey(prs'[j])] = cache'[PrKey(prs'[j])]

\* C23: once the resolution of a key has produced a result, success or error,
\* every later resolution of the key in the run, a second batchCheckPrs call
\* included, returns that cached status and spawns no `gh pr view`: a
\* reference that failed once is not retried
C23_CachedStatusReused == [][CachedStatusKept]_vars

\* C23 witness: a second batchCheckPrs call has returned without any lookup
\* of its own, and one of its references is one whose lookup failed before
C23_Witness ==
  /\ callsLeft = 0
  /\ bpc = "returned"
  /\ DOMAIN opUser = {}
  /\ \E k \in InputKeys :
        /\ k \in failedKeys
        /\ lookups[k] = 1
        /\ "error" \in DOMAIN batchResults[k]

\* the number of reviews in state APPROVED among the reviews the detail query
\* of item i answered
ApprovedReviews(i) ==
  Len(SelectSeq(details[i].reviews, LAMBDA r : r.state = "APPROVED"))

\* the approvals-needed value the specification gives for the answer of item i
ExpectedNeeded(i) ==
  CASE details[i].reviewDecision = "APPROVED" -> 0
    [] details[i].reviewDecision = "CHANGES_REQUESTED" -> -1
    [] OTHER -> CASE ApprovedReviews(i) = 0 -> 2
                  [] ApprovedReviews(i) = 1 -> 1
                  [] OTHER -> 0

\* C24: approvalsNeeded of a pending pull request is 0 when reviewDecision is
\* APPROVED and -1 when it is CHANGES_REQUESTED, whatever the approvals, and
\* otherwise max(0, 2 - approvals) with approvals the number of APPROVED
\* reviews (0 gives 2, 1 gives 1, 2 or more give 0); it is negative only as
\* the -1 of CHANGES_REQUESTED
C24_ApprovalsNeeded ==
  caller = "pending" =>
    \A i \in DOMAIN results :
       details[i].code = 0 =>
          /\ results[i] # None
          /\ results[i][1].approvals = ApprovedReviews(i)
          /\ results[i][1].approvalsNeeded = ExpectedNeeded(i)
          /\ results[i][1].approvalsNeeded \in {-1, 0, 1, 2}
          /\ results[i][1].approvalsNeeded < 0 =>
                details[i].reviewDecision = "CHANGES_REQUESTED"

\* C24 witness: a pull request with three approvals and no decision yet got
\* approvalsNeeded 0, the clamped value
C24_Witness ==
  /\ caller = "pending"
  /\ 1 \in DOMAIN results
  /\ details[1].code = 0
  /\ details[1].reviewDecision = "REVIEW_REQUIRED"
  /\ ApprovedReviews(1) = 3
  /\ results[1][1].approvalsNeeded = 0

\* listPendingReviews has printed a report from the results of the runner
Reported == caller = "pending" /\ lpc = "returned" /\ rpc = "returned"

\* a pull request of the report or of the search, named by repository and number
PrName(repo, number) == <<repo, number>>

NamesIn(bucket) == {PrName(bucket[k].repo, bucket[k].number) : k \in 1..Len(bucket)}

\* the pull requests whose review details were fetched successfully
FetchedOk ==
  {PrName(items[i].repository.nameWithOwner, items[i].number) :
     i \in {k \in DOMAIN details : details[k].code = 0}}

\* the position of a reported pull request in the search result
PlaceInSearch(p) ==
  CHOOSE k \in 1..Len(found) :
     PrName(found[k].repository.nameWithOwner, found[k].number) = PrName(p.repo, p.number)

InSearchOrder(bucket) ==
  \A a, b \in 1..Len(bucket) : a < b => PlaceInSearch(bucket[a]) < PlaceInSearch(bucket[b])

\* C25: the buckets needs-one-more (=1), needs-more (>1), changes-requested
\* (=-1) and approved (=0) are pairwise disjoint and together hold exactly the
\* pull requests whose details were fetched successfully, the reported total
\* is the sum of the four bucket sizes, and each bucket keeps the order of
\* the search result
C25_FourBuckets ==
  Reported =>
    LET one == report.needsOneApproval
        more == report.needsMoreApprovals
        changes == report.changesRequested
        appr == report.approved
    IN /\ \A k \in 1..Len(one) : one[k].approvalsNeeded = 1
       /\ \A k \in 1..Len(more) : more[k].approvalsNeeded > 1
       /\ \A k \in 1..Len(changes) : changes[k].approvalsNeeded = -1
       /\ \A k \in 1..Len(appr) : appr[k].approvalsNeeded = 0
       /\ NamesIn(one) \cap NamesIn(more) = {}
       /\ NamesIn(one) \cap NamesIn(changes) = {}
       /\ NamesIn(one) \cap NamesIn(appr) = {}
       /\ NamesIn(more) \cap NamesIn(changes) = {}
       /\ NamesIn(more) \cap NamesIn(appr) = {}
       /\ NamesIn(changes) \cap NamesIn(appr) = {}
       /\ NamesIn(one) \cup NamesIn(more) \cup NamesIn(changes) \cup NamesIn(appr) = FetchedOk
       /\ report.total = Len(one) + Len(more) + Len(changes) + Len(appr)
       /\ report.total = Cardinality(FetchedOk)
       /\ InSearchOrder(one) /\ InSearchOrder(more)
       /\ InSearchOrder(changes) /\ InSearchOrder(appr)

\* C25 witness: a report whose needs-one-more bucket holds two pull requests
\* while the approved bucket is empty
C25_Witness ==
  /\ Reported
  /\ Len(report.needsOneApproval) = 2
  /\ report.total = 2

\* the pull requests whose detail query failed
FetchFailed ==
  {PrName(items[i].repository.nameWithOwner, items[i].number) :
     i \in {k \in DOMAIN details : details[k].code # 0}}

\* C26: when the detail query of one pull request fails, listPendingReviews
\* does not fail, the pull request is in no bucket while the others are
\* reported, and processed still advances once for it: it counts the
\* completed detail queries and equals the number of filtered pull requests
\* when the report is printed
C26_FetchFailureDropsOne ==
  caller = "pending" =>
     /\ processed = Cardinality(DOMAIN details)
     /\ DOMAIN details # {} => lpc # "threw"
     /\ Reported =>
          /\ processed = Len(items)
          /\ NamesIn(report.pendingPrs) = FetchedOk
          /\ FetchFailed \cap (NamesIn(report.needsOneApproval) \cup
                               NamesIn(report.needsMoreApprovals) \cup
                               NamesIn(report.changesRequested) \cup
                               NamesIn(report.approved) \cup
                               NamesIn(report.pendingPrs)) = {}

\* C26 witness: of two pull requests the detail query of the first failed;
\* the second is reported and processed is 2
C26_Witness ==
  /\ Reported
  /\ Len(items) = 2
  /\ details[1].code # 0
  /\ details[2].code = 0
  /\ report.total = 1
  /\ processed = 2

\* the logins of the search results that contain "dependabot" or "es-robot"
\* when letter case is ignored: dependabot[bot] and ES-Robot-ci
BotLogins ==
  { <<"d", "e", "p", "e", "n", "d", "a", "b", "o", "t", "[", "b", "o", "t", "]">>,
    <<"E", "S", "-", "R", "o", "b", "o", "t", "-", "c", "i">> }

\* the search results the filter is to let through
ToFetch ==
  IF excludeBots THEN SelectSeq(found, LAMBDA pr : pr.author.login \notin BotLogins)
  ELSE found

\* C27: with the bot filter on, a pull request is excluded exactly when its
\* author login contains "dependabot" or "es-robot", letter case ignored;
\* with the filter off none is excluded; the review details of an excluded
\* pull request are never asked for and it is in no report
C27_BotFilter ==
  (caller = "pending" /\ lpc \in {"details", "returned"}) =>
     /\ items = ToFetch
     /\ \A k \in 1..Len(fetched) :
           /\ fetched[k] = ToFetch[k]
           /\ excludeBots => fetched[k].author.login \notin BotLogins
     /\ \A k \in 1..Len(report.pendingPrs) :
           excludeBots => report.pendingPrs[k].author \notin BotLogins

\* C27 witness: with the filter on, the search listed ES-Robot-ci's pull
\* request and another one; only the other one was fetched and reported
C27_Witness ==
  /\ Reported
  /\ excludeBots
  /\ Len(found) = 2
  /\ found[1].author.login = <<"E", "S", "-", "R", "o", "b", "o", "t", "-", "c", "i">>
  /\ Len(fetched) = 1
  /\ report.total = 1

\* C28: runWithConcurrency returns only after every one of the N operations
\* has completed: when it returns, every operation was launched, none is
\* still in flight and every output slot has been written
C28_ReturnsAfterAllCompleted ==
  (caller = "generic" /\ rpc = "returned") =>
     /\ DOMAIN promise = 1..Len(items)
     /\ InFlight = {}
     /\ DOMAIN results = 1..Len(items)

\* C29: runWithConcurrency launches the operations in input order and is
\* work-conserving: the launched operations are always a prefix of the input,
\* the loop never waits for a completion before min(N, C) operations are
\* started, it waits for all of them only when no input remains, and when it
\* rests on a completion with nothing left to run, C operations are in flight
C29_InOrderWorkConserving ==
  caller = "generic" =>
     /\ DOMAIN promise = 1..(index - 1)
     /\ index <= Len(items) + 1
     /\ rpc = "race" => Cardinality(DOMAIN promise) >= concurrency
     /\ rpc \in {"all", "returned"} => index = Len(items) + 1
     /\ (rpc = "race" /\ mq = <<>>) => Cardinality(InFlight) = concurrency

\* C29 witness: with limit 2, operation 1 has completed while operation 2 is
\* still in flight, and operation 3 has been launched in its place
C29_Witness ==
  /\ caller = "generic"
  /\ concurrency = 2
  /\ rpc = "race"
  /\ mq = <<>>
  /\ 1 \in DOMAIN promise /\ promise[1] = "fulfilled"
  /\ InFlight = {2, 3}

\* once the error has left the runner nothing more is launched
NoLaunchAfterError == rpc = "threw" => (rpc' = "threw" /\ index' = index)

\* C30: after an operation's error has propagated out of runWithConcurrency
\* no input that was not yet launched is launched, while the operations
\* already launched are not cancelled: each of them still runs to completion
C30_FailFastWithoutCancellation ==
  /\ [][NoLaunchAfterError]_vars
  /\ (caller = "generic" /\ rpc = "threw") ~> (InFlight = {})

\* the resolutions of cache key k that have missed the cache and not yet
\* produced their result
Resolving(k) ==
  {i \in DOMAIN fnst :
     /\ caller = "batch"
     /\ fnst[i] \in {"userIO", "resuming", "prIO"}
     /\ CacheKey(items[i].repo, items[i].prNumber) = k}

\* the cache keys of the operations of the current batchCheckPrs call
OperationKeys ==
  IF caller = "batch"
  THEN {CacheKey(items[i].repo, items[i].prNumber) : i \in 1..Len(items)}
  ELSE {}

\* never two resolutions of one key in flight, and none for a key that is
\* already in the cache
NoRaceToPopulate ==
  \A k \in OperationKeys \cup DOMAIN cache :
     /\ Cardinality(Resolving(k)) <= 1
     /\ k \in DOMAIN cache => Resolving(k) = {}

\* every entry stays as it was written, and a step in which a resolution
\* writes its result (pr.ts:108, 130) adds a key the cache did not have
CacheAppendOnly ==
  /\ \A k \in DOMAIN cache : k \in DOMAIN cache' /\ cache'[k] = cache[k]
  /\ Cardinality(DOMAIN cache' \ DOMAIN cache) <= 1
  /\ \A i \in DOMAIN fnst :
        (caller = "batch" /\ fnst[i] = "prIO" /\ i \in DOMAIN fnst' /\ fnst'[i] = "settled") =>
           /\ CacheKey(items[i].repo, items[i].prNumber) \notin DOMAIN cache
           /\ DOMAIN cache' = DOMAIN cache \cup {CacheKey(items[i].repo, items[i].prNumber)}

\* C31: the status cache is append-only over any sequence of batchCheckPrs
\* calls in one run: its key set only grows, no key is written more than once,
\* an entry once written is never replaced or removed, and at no time are two
\* resolutions for the same key in flight
C31_CacheAppendOnly ==
  /\ []NoRaceToPopulate
  /\ [][CacheAppendOnly]_vars

\* C31 witness: two calls have returned and left three keys in the cache; the
\* second call named two keys and resolved only the one the first had not
C31_Witness ==
  /\ callsLeft = 0
  /\ bpc = "returned"
  /\ Cardinality(DOMAIN cache) = 3
  /\ Cardinality(InputKeys) = 2
  /\ Cardinality(DOMAIN opUser) = 1

\* the statuses the resolver has produced: the cached ones, the ones on their
\* way through the runner and the ones batchCheckPrs returned, by cache key
ProducedStatuses ==
  {<<k, cache[k]>> : k \in DOMAIN cache} \cup
  {<<k, batchResults[k]>> : k \in DOMAIN batchResults} \cup
  (IF caller = "batch"
   THEN {<<results[i].key, results[i].result>> : i \in DOMAIN results}
   ELSE {})

\* C32: every status the resolver produces has isMerged = (state = MERGED),
\* and every status produced from a failed `gh pr view` carries the safe
\* defaults state = CLOSED, isMerged = false, wasRequestedReviewer = false,
\* wasMentioned = false together with its error
C32_StatusWellFormed ==
  \A p \in ProducedStatuses :
     /\ p[2].state \in {"OPEN", "CLOSED", "MERGED"}
     /\ p[2].isMerged = (p[2].state = "MERGED")
     /\ p[1] \in failedKeys =>
          /\ p[2].state = "CLOSED"
          /\ p[2].isMerged = FALSE
          /\ p[2].wasRequestedReviewer = FALSE
          /\ p[2].wasMentioned = FALSE
          /\ "error" \in DOMAIN p[2]
     /\ "error" \in DOMAIN p[2] => p[1] \in failedKeys

\* C32 witness: batchCheckPrs has returned the status of a query that failed
\* with "Could not resolve" next to a MERGED status with isMerged set
C32_Witness ==
  /\ bpc = "returned"
  /\ \E k, h \in DOMAIN batchResults :
        /\ k \in failedKeys
        /\ batchResults[k].error = <<"PR not found">>
        /\ h \notin failedKeys
        /\ batchResults[h].state = "MERGED"
        /\ batchResults[h].isMerged

\* the completion counts up to c at which a call over total references is to
\* report: the multiples of 10 and the last one, each once, in increasing order
ReportsDue(c, total) ==
  SelectSeq([k \in 1..c |-> k], LAMBDA k : k % 10 = 0 \/ k = total)

\* the reports made so far are the ones due for the completions counted so far
ProgressAsDue ==
  bpc \in {"running", "returned"} =>
     /\ checked \in 0..Len(items)
     /\ progress = ReportsDue(checked, Len(items))
     /\ bpc = "returned" =>
          /\ checked = Len(items)
          /\ Len(items) > 0 => progress[Len(progress)] = Len(items)
          /\ \A a, b \in 1..Len(progress) : a < b => progress[a] < progress[b]

\* the completion counter goes up by one at a time within a call
CountsByOne ==
  checked' # checked => (checked' = checked + 1 \/ (bpc # "running" /\ checked' = 0))

\* C33: in a batchCheckPrs call over N unique references that all resolve,
\* progress is reported exactly at the completion counts k with k a multiple
\* of 10 or k = N, once each and in increasing order; the completion counter
\* takes each value 1..N exactly once under every interleaving, the last
\* report is N/N, and when N is a multiple of 10 the final count is not
\* reported twice
C33_ProgressReports ==
  /\ []ProgressAsDue
  /\ [][CountsByOne]_vars

\* C33 witness: a call over 11 references has returned after reporting 10/11
\* and 11/11
C33_Witness ==
  /\ bpc = "returned"
  /\ Len(items) = 11
  /\ checked = 11
  /\ progress = <<10, 11>>

\* the positions of the input list at which a key occurs for the first time
FirstOccurrences ==
  {j \in 1..Len(prs) : \A h \in 1..(j - 1) : PrKey(prs[h]) # PrKey(prs[j])}

\* C34: batchCheckPrs deduplicates by string key preserving first-seen order:
\* the unique references are given to the runner, and launched by it, in the
\* order of the first occurrence of each key in the input list, and each
\* duplicate collapses onto that first occurrence
C34_DedupFirstSeen ==
  (caller = "batch" /\ bpc # "idle") =>
     LET first == SetToSeq(FirstOccurrences)
     IN /\ Len(items) = Len(first)
        /\ \A k \in 1..Len(items) :
              /\ items[k].key = PrKey(prs[first[k]])
              /\ items[k].repo = prs[first[k]].repo
              /\ items[k].prNumber = prs[first[k]].prNumber
        /\ \A j \in 1..Len(prs) :
              Cardinality({k \in 1..Len(items) : items[k].key = PrKey(prs[j])}) = 1
        /\ DOMAIN promise = 1..(index - 1)
        /\ \A k \in DOMAIN lookups : lookups[k] <= 1

\* C34 witness: the call on a list whose third reference repeats the first
\* has returned; the runner was given the first and the second, in that order
C34_Witness ==
  /\ bpc = "returned"
  /\ Len(prs) = 3
  /\ prs[1] = prs[3]
  /\ prs[1] # prs[2]
  /\ Len(items) = 2
  /\ items[1].key = PrKey(prs[1])
  /\ items[2].key = PrKey(prs[2])
  /\ DOMAIN batchResults = {PrKey(prs[1]), PrKey(prs[2])}

\* the email processEmails would have taken the reference p from
EmailOfRef(p) == [repo |-> Some(p.repo), prNumber |-> p.prNumber]

\* the input references of the current batchCheckPrs call, as pairs
InputPairs == {<<prs[j].repo, prs[j].prNumber>> : j \in 1..Len(prs)}

\* C35: for every input reference (repo, number), with repo an "owner/name"
\* string and number a positive integer, the reference rebuilt from its key
\* "{repo}#{number}" is the original pair, so the resolver is invoked on
\* exactly the referenced pull requests and the key stored in the returned map
\* is the key processEmails looks up for that email
C35_KeyRoundTrip ==
  (caller = "batch" /\ bpc # "idle") =>
     /\ \A j \in 1..Len(prs) :
           \E k \in 1..Len(items) :
              /\ items[k].key = PrKey(prs[j])
              /\ items[k].repo = prs[j].repo
              /\ items[k].prNumber = prs[j].prNumber
     /\ \A k \in 1..Len(items) : <<items[k].repo, items[k].prNumber>> \in InputPairs
     /\ \A key \in DOMAIN lookups :
           \E j \in 1..Len(prs) : key = EmailKey(EmailOfRef(prs[j]))
     /\ \A key \in DOMAIN cache :
           /\ <<cache[key].repo, cache[key].prNumber>> \in InputPairs
           /\ key = EmailKey(EmailOfRef(cache[key]))
     /\ bpc = "returned" =>
           \A j \in 1..Len(prs) :
              LET key == EmailKey(EmailOfRef(prs[j]))
              IN /\ key \in DOMAIN batchResults
                 /\ batchResults[key].repo = prs[j].repo
                 /\ batchResults[key].prNumber = prs[j].prNumber

\* C35 witness: a call on the pull requests 1..11 of o-1/a.2 has returned; the
\* status under the key of number 10 is the status of number 10
C35_Witness ==
  /\ bpc = "returned"
  /\ Len(prs) = 11
  /\ prs[10] = [repo |-> RepoC, prNumber |-> Some(10)]
  /\ EmailKey(EmailOfRef(prs[10])) =
       <<"o", "-", "1", "/", "a", ".", "2", "#", "1", "0">>
  /\ batchResults[EmailKey(EmailOfRef(prs[10]))].prNumber = Some(10)
  /\ batchResults[EmailKey(EmailOfRef(prs[10]))].repo = RepoC

\* repository and PR number of the email are both present (not null)
BothPresent(e) == e.repo # None /\ e.prNumber # None

\* the emails of a list, as a set
Members(list) == {list[k] : k \in 1..Len(list)}

\* no email is a candidate of both passes, and the deletion list holds only
\* fetched emails, each at most once
SelectedAtMostOnce ==
  /\ \A e \in FetchedEmails : ~(PrSelected(e) /\ CiSelected(e))
  /\ Members(allToDelete) \subseteq FetchedEmails
  /\ \A a, b \in 1..Len(allToDelete) : a # b => allToDelete[a] # allToDelete[b]
  /\ \A k \in 1..Len(prToDelete) : prToDelete[k].email \in Members(PrEmails(emails))
  /\ \A k \in 1..Len(ciToDelete) : ciToDelete[k].email \in Members(NonPrEmails(emails))

\* C36: the PR emails and the non-PR emails partition the fetched emails, an
\* email being a PR email if and only if both its repository and its PR number
\* are present, so no email is selected by both passes: the deletion list
\* holds only fetched emails and each fetched email at most once
C36_PassesPartition ==
  Decided =>
     /\ Members(PrEmails(emails)) \cup Members(NonPrEmails(emails)) = FetchedEmails
     /\ Members(PrEmails(emails)) \cap Members(NonPrEmails(emails)) = {}
     /\ \A e \in FetchedEmails : e \in Members(PrEmails(emails)) <=> BothPresent(e)
     /\ SelectedAtMostOnce

\* an operation of the runner has completed with an error
OperationFailed ==
  \/ \E i \in DOMAIN promise : promise[i] = "rejected"
  \/ \E k \in 1..Len(mq) : mq[k].t = "iife" /\ ~mq[k].ok

\* C37: if every launched operation eventually completes without error, a
\* runWithConcurrency call eventually returns, for every N >= 0 and C >= 1: no
\* deadlock and no lost wake-up, also for N = 0, for C > N and for operations
\* that complete immediately
C37_EventuallyReturns ==
  <>(OperationFailed \/ (caller = "generic" /\ rpc = "returned"))

\* C37 witness: a call on three items with limit 2 has returned with all
\* three results, no operation having failed
C37_Witness ==
  /\ caller = "generic"
  /\ rpc = "returned"
  /\ Len(items) = 3
  /\ concurrency = 2
  /\ ~OperationFailed
  /\ DOMAIN results = 1..3

RECURSIVE Flatten(_)
\* the batches joined in their order
Flatten(batches) ==
  IF batches = <<>> THEN <<>> ELSE Head(batches) \o Flatten(Tail(batches))

\* the list the running or finished batchMoveToTrash was called with
MoveList == moved[Len(moved)].list

\* C38: the Graph (batch size 20) and EWS (batch size 50) batchMoveToTrash
\* split the candidate list into consecutive batches that, joined in send
\* order, are the input list: every candidate is in exactly one batch, every
\* batch has between 1 and the batch size elements, the batches are sent one
\* after another in that order, an empty list sends no request, and when the
\* last batch has succeeded the reported progress is the total
C38_BatchesCoverInput ==
  (mvBackend \in {"graph", "ews"} /\ mpc # "idle") =>
     LET size == IF mvBackend = "graph" THEN 20 ELSE 50
     IN /\ Flatten(mvBatches) = MoveList
        /\ \A x \in ToMove :
              Cardinality({<<b, k>> \in (1..Len(mvBatches)) \X (1..size) :
                             k <= Len(mvBatches[b]) /\ mvBatches[b][k] = x}) = 1
        /\ \A b \in 1..Len(mvBatches) : Len(mvBatches[b]) \in 1..size
        /\ Len(sent) <= Len(mvBatches)
        /\ \A b \in 1..Len(sent) : sent[b] = mvBatches[b]
        /\ mpc = "sending" => Len(sent) = mvIndex - 1
        /\ MoveList = <<>> => (sent = <<>> /\ mvProgress = <<>> /\ mpc = "returned")
        /\ \A b \in 1..Len(mvProgress) :
              mvProgress[b] = Len(Flatten(SubSeq(mvBatches, 1, b)))
        /\ mpc = "returned" =>
              /\ sent = mvBatches
              /\ Len(mvProgress) = Len(mvBatches)
              /\ MoveList # <<>> => mvProgress[Len(mvProgress)] = Len(MoveList)

\* C38 witness: the Graph batchMoveToTrash has returned from a list of 51
\* candidates sent as batches of 20, 20 and 11, reporting 20, 40 and 51
C38_Witness ==
  /\ mvBackend = "graph"
  /\ mpc = "returned"
  /\ Len(MoveList) = 51
  /\ Len(sent) = 3
  /\ Len(sent[3]) = 11
  /\ mvProgress = <<20, 40, 51>>

====
